---- MODULE Spec2Model ----
(***************************************************************************)
(* Model of the CI/CD healing agent: backend/app.py, backend/agent.        *)
(*                                                                         *)
(* Text is modelled as a sequence of one-token strings ("a", " ", "\n").   *)
(* A file on disk is the flat token sequence of its bytes; a workspace is  *)
(* a function from the paths that exist to their content.                  *)
(*                                                                         *)
(* Specifications:                                                         *)
(*   SpecFixer    fixer.apply_fixes, one patch of the list per step        *)
(*   SpecDedup    deterministic_fixer._deduplicate_fixes                   *)
(*   SpecDetect   the deterministic pass: detect, apply, detect again      *)
(*   SpecServer   app.py: POST /api/run and the background worker threads  *)
(*   SpecSSE      app.py: broadcast_event and the /api/events streams      *)
(*   SpecSSELive  SpecSSE, with the broadcasting threads scheduled fairly  *)
(*   SpecParse    test_runner.parse_pytest_output on one output            *)
(*   SpecDiscover pipeline._discover_source_files_from_errors on one run   *)
(*   SpecRelocate fixer.apply_fixes with one patch on a longer file        *)
(*   SpecIndent   deterministic_fixer._determine_correct_indent            *)
(*   Spec         pipeline.run_pipeline, one external call per step        *)
(*   SpecLive     Spec, with every step that can be taken eventually taken *)
(***************************************************************************)
EXTENDS Integers, Sequences, FiniteSets, TLC

VARIABLES
    ws,         \* the workspace on disk: [path -> content]
    fx_last,    \* apply_fixes: the patch visited last, as appended to `results`
                \* (a sequence of zero or one patch)
    fx_status,  \* apply_fixes: the statuses of `results`, in order
    fx_prev,    \* the workspace as it was before the last visited patch
    dd_in,      \* detect_and_fix_deterministic: all_fixes before deduplication
    dd_out,     \* detect_and_fix_deterministic: all_fixes after deduplication
    dd_done,    \* whether _deduplicate_fixes has returned
    flake8,     \* the linter of the environment: "absent" or "installed"
    dt_pc,      \* deterministic pass: "start", "detected", "applied", "redetected"
    dt_fixes,   \* det_result["fixes"], with the statuses apply_fixes gave them
    dt_again,   \* the patches of a second run of the detector
    current_run,\* app.py: the process-wide run state {status, result}
    req_pc,     \* POST /api/run: where the handler of each request stands
    worker_pc,  \* run_agent_background: where the thread of each request stands
    sse_clients,        \* app.py: the queues of the connected streams, in order
    sse_clients_lock,   \* app.py: <<>> when free, else the thread that holds it
    queue,      \* event_stream: the content of q, for each stream
    stream_pc,  \* event_stream: where the generator of each stream stands
    broadcasting,   \* broadcast_event: where each broadcasting thread stands
    enqueued,   \* history: every event put into the queue of each stream
    published,  \* history: the events broadcast, in the order of the lock
    subscribed_at,  \* history: Len(published) when the stream was appended
    unsubscribed_at,\* history: Len(published) when the stream was removed
    pc,         \* run_pipeline: the step about to be executed
    iteration,  \* run_pipeline: the loop variable (0 before the loop)
    result,     \* run_pipeline: the report {final_status, error, iterations, ...}
    deps_installed, \* run_pipeline: whether the first test run has been made
    test_results,   \* run_pipeline: what run_tests returned last
    fix_response,   \* run_pipeline: fix_response["fixes"], as returned last
    iter_result,    \* run_pipeline: the record of the pass under way
    trace,      \* history: the external calls made and the events emitted, in order
    commit_result,  \* run_pipeline: what commit_and_push returned last
    git,        \* environment: what git did in the last commit_and_push
    skip_deps_log,  \* history: the skip_deps argument of each call of run_tests
    arg,        \* a function called on its own: its argument
    ret,        \* a function called on its own: what it returned
    called      \* a function called on its own: whether it has returned

fixerVars == <<ws, fx_last, fx_status, fx_prev>>
dedupVars == <<dd_in, dd_out, dd_done>>
detectVars == <<flake8, dt_pc, dt_fixes, dt_again>>
sseVars == <<sse_clients, sse_clients_lock, queue, stream_pc, broadcasting,
             enqueued, published, subscribed_at, unsubscribed_at>>
callVars == <<arg, ret, called>>
serverVars == <<current_run, req_pc, worker_pc, sseVars, callVars>>
gitVars == <<commit_result, git>>
pipeVars == <<pc, iteration, result, deps_installed, test_results, fix_response,
              iter_result, trace, gitVars, skip_deps_log>>
vars == <<fixerVars, dedupVars, detectVars, serverVars, pipeVars>>

\* ------------------------------------------------------------------ bounds
\* Longest file of an initial workspace, in lines.
MaxLines == 2
\* Longest patch list handed to apply_fixes.
MaxFixes == 2
\* Longest list of candidate patches handed to _deduplicate_fixes.
MaxCandidates == 3
\* Longest file of a workspace handed to the detector, in lines.
MaxDetectLines == 2

\* ------------------------------------------------------------------ text
LF == "\n"
CR == "\r"

\* str.strip() / str.isspace(): the whitespace tokens of the alphabet.
IsSpace(c) == c \in {" ", "\t", LF, CR}

RECURSIVE LStrip(_)
LStrip(s) ==
    IF s # <<>> /\ IsSpace(Head(s)) THEN LStrip(Tail(s)) ELSE s

RECURSIVE RStrip(_)
RStrip(s) ==
    IF s # <<>> /\ IsSpace(s[Len(s)]) THEN RStrip(SubSeq(s, 1, Len(s) - 1)) ELSE s

Strip(s) == LStrip(RStrip(s))

\* str.rstrip(c) for a single character c.
RECURSIVE RStripChar(_, _)
RStripChar(s, c) ==
    IF s # <<>> /\ s[Len(s)] = c THEN RStripChar(SubSeq(s, 1, Len(s) - 1), c) ELSE s

EndsWith(s, suffix) ==
    /\ Len(s) >= Len(suffix)
    /\ SubSeq(s, Len(s) - Len(suffix) + 1, Len(s)) = suffix

RECURSIVE Flatten(_)
Flatten(ss) == IF ss = <<>> THEN <<>> ELSE Head(ss) \o Flatten(Tail(ss))

\* f.readlines() of a file opened in text mode with the default newline=None
\* (universal newlines): "\n", "\r\n" and a lone "\r" all end a line and all
\* arrive as "\n"; a last line without terminator is returned without one.
RECURSIVE ReadLinesFrom(_, _)
ReadLinesFrom(content, cur) ==
    IF content = <<>> THEN (IF cur = <<>> THEN <<>> ELSE <<cur>>)
    ELSE IF Head(content) = LF
        THEN <<Append(cur, LF)>> \o ReadLinesFrom(Tail(content), <<>>)
    ELSE IF Head(content) = CR
        THEN IF Len(content) >= 2 /\ content[2] = LF
             THEN <<Append(cur, LF)>> \o ReadLinesFrom(Tail(Tail(content)), <<>>)
             ELSE <<Append(cur, LF)>> \o ReadLinesFrom(Tail(content), <<>>)
    ELSE ReadLinesFrom(Tail(content), Append(cur, Head(content)))

ReadLines(content) == ReadLinesFrom(content, <<>>)

\* os.linesep of the platform the agent is deployed on (POSIX).
OsLinesep == <<LF>>

\* f.writelines(lines) of a file opened in text mode with the default
\* newline=None: every "\n" written becomes os.linesep.
RECURSIVE TranslateNewlines(_, _)
TranslateNewlines(s, sep) ==
    IF s = <<>> THEN <<>>
    ELSE (IF Head(s) = LF THEN sep ELSE <<Head(s)>>) \o TranslateNewlines(Tail(s), sep)

WriteLines(lines) == TranslateNewlines(Flatten(lines), OsLinesep)

\* ------------------------------------------------------------------ paths
\* A path is a token sequence too: <<".", "/", "a">> is "./a".
A_PY == <<"a">>
\* A path that names no file of the workspace.
MISSING_PY == <<"m">>

\* os.path.exists(os.path.join(repo_path, p)): the file system ignores
\* leading "./" components.
RECURSIVE FsPath(_)
FsPath(p) ==
    IF Len(p) >= 2 /\ p[1] = "." /\ p[2] = "/" THEN FsPath(Tail(Tail(p))) ELSE p

Exists(w, p) == FsPath(p) \in DOMAIN w

\* ------------------------------------------------------------------ fixer.py
\* dict.get(key, default)
Get(d, key, default) == IF key \in DOMAIN d THEN d[key] ELSE default

\* line.rstrip("\n").rstrip("\r")
RStripNewline(line) == RStripChar(RStripChar(line, LF), CR)

\* Mutant of FindLine: the scan keeps the last line that matches.
FindLine_Last(lines, old_code) ==
    LET hits == {i \in 1..Len(lines) :
                    Strip(RStripNewline(lines[i])) = Strip(old_code)}
    IN IF hits = {} THEN -1
       ELSE (CHOOSE i \in hits : \A j \in hits : i >= j) - 1

\* The relocation scan: the 0-based index of the first line whose trimmed
\* content equals the trimmed old_code, or -1 (found = False).
FindLine(lines, old_code) ==
    LET hits == {i \in 1..Len(lines) :
                    Strip(RStripNewline(lines[i])) = Strip(old_code)}
    IN IF hits = {} THEN -1
       ELSE (CHOOSE i \in hits : \A j \in hits : i <= j) - 1

\* if old_code and old_code.strip() != actual_line.strip()
Mismatch(old_code, actual_line) ==
    old_code # <<>> /\ Strip(old_code) # Strip(actual_line)

\* Mutant of PopLine: lines.pop() without the index removes the last line.
PopLine_NoIndex(lines, line_idx) == SubSeq(lines, 1, Len(lines) - 1)

\* lines.pop(line_idx), line_idx 0-based
PopLine(lines, line_idx) ==
    SubSeq(lines, 1, line_idx) \o SubSeq(lines, line_idx + 2, Len(lines))

\* original_newline: "\n" unless the line read ends with "\r\n"
OriginalNewline(line) == IF EndsWith(line, <<CR, LF>>) THEN <<CR, LF>> ELSE <<LF>>

\* lines[line_idx] = new_code + original_newline
ReplaceLine(lines, line_idx, new_code) ==
    [lines EXCEPT ![line_idx + 1] = new_code \o OriginalNewline(lines[line_idx + 1])]

\* Mutant of Failed: the patch is marked with a status of its own.
Failed_Skipped(fix, msg) == [fix EXCEPT !.status = "skipped", !.status_message = msg]
Failed(fix, msg) == [fix EXCEPT !.status = "failed", !.status_message = msg]
Applied(fix) ==
    [fix EXCEPT !.status = "applied", !.status_message = <<"Fix applied successfully">>]

\* The body of the loop of apply_fixes for one patch: the workspace and the
\* patch (with status and status_message) it leaves behind.
ApplyFix(w, fix0) ==
    LET fix == [k \in DOMAIN fix0 \cup {"status", "status_message"} |->
                   IF k \in DOMAIN fix0 THEN fix0[k] ELSE <<>>]
    IN
    IF ~Exists(w, fix.file)
    THEN [ws |-> w, fix |-> Failed(fix, <<"File not found", fix.file>>)]
    ELSE IF "line" \notin DOMAIN fix0
    THEN [ws |-> w, fix |-> Failed(fix, <<"'line'">>)]
    ELSE
    LET lines == ReadLines(w[FsPath(fix.file)])
        line_idx == fix.line - 1
    IN
    IF line_idx < 0 \/ line_idx >= Len(lines)
    THEN [ws |-> w, fix |-> Failed(fix, <<"Line out of range", fix.line, Len(lines)>>)]
    ELSE
    LET old_code == Strip(Get(fix, "old_code", <<>>))
        new_code == Get(fix, "new_code", <<>>)
        actual_line == RStripNewline(lines[line_idx + 1])
        found == FindLine(lines, old_code)
    IN
    IF Mismatch(old_code, actual_line) /\ found = -1
    THEN [ws |-> w, fix |-> Failed(fix, <<"Expected", old_code, fix.line, actual_line>>)]
    ELSE
    LET target == IF Mismatch(old_code, actual_line) THEN found ELSE line_idx
        lines2 == IF new_code = <<>> THEN PopLine(lines, target)
                  ELSE ReplaceLine(lines, target, new_code)
    IN [ws |-> [w EXCEPT ![FsPath(fix.file)] = WriteLines(lines2)],
        fix |-> Applied(fix)]

\* ------------------------------------------------------------------ app.py: state
\* Requests to POST /api/run that the model lets arrive.
MaxRequests == 3
Requests == 1..MaxRequests

\* current_run as the module creates it.
IdleRun == [status |-> "idle", result |-> <<>>]

\* Streams of GET /api/events that the model lets connect, and events that
\* the model lets be broadcast.  Two worker threads broadcast (start_run
\* does not exclude a second one).
MaxListeners == 2
MaxEvents == 2
Listeners == 1..MaxListeners
Runs == {1, 2}

\* A thread that is not in broadcast_event and has emitted n events.
Idle(n) == [pc |-> "idle", n |-> n, i |-> 0, dead |-> <<>>]

\* The module as loaded: sse_clients = [], the lock free, no stream, no event.
SSEOff ==
    /\ sse_clients = <<>>
    /\ sse_clients_lock = <<>>
    /\ queue = [l \in Listeners |-> <<>>]
    /\ stream_pc = [l \in Listeners |-> "none"]
    /\ broadcasting = [b \in Runs |-> Idle(0)]
    /\ enqueued = [l \in Listeners |-> <<>>]
    /\ published = <<>>
    /\ subscribed_at = [l \in Listeners |-> -1]
    /\ unsubscribed_at = [l \in Listeners |-> -1]

\* No function is called on its own.
CallOff == arg = <<>> /\ ret = <<>> /\ called = FALSE

\* The server before any request has arrived.
ServerOff ==
    /\ current_run = IdleRun
    /\ req_pc = [r \in Requests |-> "none"]
    /\ worker_pc = [r \in Requests |-> "none"]
    /\ SSEOff

\* ------------------------------------------------------------------ pipeline.py: state
\* `result` as run_pipeline creates it (the fields the model follows).
NewResult ==
    [final_status |-> "RUNNING", error |-> <<>>, iterations |-> <<>>,
     total_fixes_applied |-> 0, all_fixes |-> <<>>]

\* `iter_result` as a pass of the loop creates it (the fields the model follows).
NewIterResult(it) == [iteration |-> it, status |-> "running", fixes_applied |-> <<>>]

\* test_results before the first test run: not yet assigned.
NoTestResults == [failed |-> 0, errors |-> <<>>]

\* commit_result before the first commit: not yet assigned.
NoCommitResult == [success |-> FALSE, commit_hash |-> <<>>, push_success |-> FALSE]

\* No run of the pipeline.
PipeOff ==
    /\ pc = "off"
    /\ iteration = 0
    /\ result = NewResult
    /\ deps_installed = FALSE
    /\ test_results = NoTestResults
    /\ fix_response = <<>>
    /\ iter_result = NewIterResult(0)
    /\ trace = <<>>
    /\ commit_result = NoCommitResult
    /\ git = "none"
    /\ skip_deps_log = <<>>

\* ------------------------------------------------------------------ inputs
\* Line contents of the initial files: text, indented text, a blank line.
LineTexts == {<<"a">>, <<" ", "b">>, <<>>}

RECURSIVE SeqsUpTo(_, _)
SeqsUpTo(S, n) ==
    IF n = 0 THEN {<<>>}
    ELSE LET shorter == SeqsUpTo(S, n - 1)
         IN shorter \cup {Append(s, x) : s \in {t \in shorter : Len(t) = n - 1}, x \in S}

\* A file: its lines all end the same way ("\n" or "\r\n"), the last one
\* possibly without terminator.
FileOf(texts, eol, lastTerminated) ==
    Flatten([i \in 1..Len(texts) |->
                texts[i] \o (IF i < Len(texts) \/ lastTerminated THEN eol ELSE <<>>)])

FileContents ==
    {FileOf(t, eol, lt) : t \in SeqsUpTo(LineTexts, MaxLines),
                          eol \in {<<LF>>, <<CR, LF>>}, lt \in BOOLEAN}

OldCodes == {<<>>, <<" ">>, <<"a">>, <<"b", " ">>, <<"c">>}
NewCodes == {<<>>, <<"c">>}

\* Patches as a fix provider or the detector hands them to apply_fixes.
PatchSet ==
    {[file |-> A_PY, line |-> l, old_code |-> o, new_code |-> n] :
        l \in 0..(MaxLines + 1), o \in OldCodes, n \in NewCodes}
    \cup {[file |-> MISSING_PY, line |-> 1, old_code |-> <<>>, new_code |-> <<>>],
          [file |-> <<".", "/">> \o A_PY, line |-> 1, old_code |-> <<"a">>,
           new_code |-> <<"c">>]}

\* ------------------------------------------------------------------ SpecFixer
InitFixer ==
    /\ dd_in = <<>> /\ dd_out = <<>> /\ dd_done = FALSE
    /\ flake8 = "absent" /\ dt_pc = "off" /\ dt_fixes = <<>> /\ dt_again = <<>>
    /\ ServerOff /\ PipeOff /\ CallOff
    /\ ws \in {[p \in {A_PY} |-> c] : c \in FileContents}
    /\ fx_last = <<>>
    /\ fx_status = <<>>
    /\ fx_prev = ws

\* One pass of `for fix in fixes`: the caller's list is any list of at most
\* MaxFixes patches, so the next patch is any patch.
ApplyNext ==
    /\ Len(fx_status) < MaxFixes
    /\ \E fix \in PatchSet :
          LET r == ApplyFix(ws, fix)
          IN /\ ws' = r.ws
             /\ fx_last' = <<r.fix>>
             /\ fx_status' = Append(fx_status, r.fix.status)
    /\ fx_prev' = ws
    /\ UNCHANGED <<dedupVars, detectVars, serverVars, pipeVars>>

NextFixer == ApplyNext

SpecFixer == InitFixer /\ [][NextFixer]_vars

\* ------------------------------------------------------------------ SpecRelocate
\* apply_fixes called with one patch on a file long enough to hold two lines
\* that match an old_code and one that does not.
MaxScanLines == 3

ScanFiles ==
    {FileOf(t, eol, lt) : t \in SeqsUpTo(LineTexts, MaxScanLines),
                          eol \in {<<LF>>, <<CR, LF>>}, lt \in BOOLEAN}

ScanPatches ==
    {[file |-> A_PY, line |-> l, old_code |-> o, new_code |-> n] :
        l \in 0..(MaxScanLines + 1), o \in OldCodes, n \in NewCodes}

InitRelocate ==
    /\ dd_in = <<>> /\ dd_out = <<>> /\ dd_done = FALSE
    /\ flake8 = "absent" /\ dt_pc = "off" /\ dt_fixes = <<>> /\ dt_again = <<>>
    /\ ServerOff /\ PipeOff /\ CallOff
    /\ ws \in {[p \in {A_PY} |-> c] : c \in ScanFiles}
    /\ fx_last = <<>>
    /\ fx_status = <<>>
    /\ fx_prev = ws

\* applied = apply_fixes(repo_path, [fix])
ApplyOne ==
    /\ fx_status = <<>>
    /\ \E fix \in ScanPatches :
          LET r == ApplyFix(ws, fix)
          IN /\ ws' = r.ws
             /\ fx_last' = <<r.fix>>
             /\ fx_status' = <<r.fix.status>>
    /\ fx_prev' = ws
    /\ UNCHANGED <<dedupVars, detectVars, serverVars, pipeVars>>

SpecRelocate == InitRelocate /\ [][ApplyOne]_vars

\* ------------------------------------------------------------------ claims: patch engine
\* The patch visited last, and the lines of its file before and after.
LastFix == fx_last[1]
LinesBefore == ReadLines(fx_prev[FsPath(LastFix.file)])
LinesAfter == ReadLines(ws[FsPath(LastFix.file)])
\* The content of line i (1-based) without terminator and surrounding blanks.
Trimmed(lines, i) == Strip(RStripNewline(lines[i]))

\* The case of C3: the patch names a line of an existing file, its old_code
\* is not empty, differs (trimmed) from that line and equals (trimmed) no line.
NoMatchAnywhere ==
    /\ fx_last # <<>>
    /\ Exists(fx_prev, LastFix.file)
    /\ LastFix.line \in 1..Len(LinesBefore)
    /\ LastFix.old_code # <<>>
    /\ Strip(LastFix.old_code) # Trimmed(LinesBefore, LastFix.line)
    /\ \A i \in 1..Len(LinesBefore) : Strip(LastFix.old_code) # Trimmed(LinesBefore, i)

\* C3 (patch safety): a patch whose non-empty old_code matches neither the
\* line at its index nor any other line of the file ends Failed and leaves
\* the workspace as it was.
C3_PatchSafety ==
    NoMatchAnywhere => LastFix.status = "failed" /\ ws = fx_prev

\* The case of C4: the patch visited last was applied as a deletion.
AppliedDeletion ==
    /\ fx_last # <<>>
    /\ LastFix.status = "applied"
    /\ LastFix.new_code = <<>>

\* lines without its k-th line (1-based), every other line in place.
Without(lines, k) ==
    [i \in 1..(Len(lines) - 1) |-> IF i < k THEN lines[i] ELSE lines[i + 1]]

Targeted(k) ==
    IF \/ Strip(LastFix.old_code) = <<>>
       \/ Strip(LastFix.old_code) = Trimmed(LinesBefore, LastFix.line)
    THEN k = LastFix.line
    ELSE /\ k \in 1..Len(LinesBefore)
         /\ Strip(LastFix.old_code) = Trimmed(LinesBefore, k)
         /\ \A j \in 1..(k - 1) : Strip(LastFix.old_code) # Trimmed(LinesBefore, j)

RECURSIVE ReplaceBackslash(_)
ReplaceBackslash(p) ==
    IF p = <<>> THEN <<>>
    ELSE <<IF Head(p) = "\\" THEN "/" ELSE Head(p)>> \o ReplaceBackslash(Tail(p))

\* _normalize_path
NormalizePath(p) ==
    LET q == ReplaceBackslash(p)
    IN IF Len(q) >= 2 /\ q[1] = "." /\ q[2] = "/" THEN Tail(Tail(q)) ELSE q

\* key = (fix["file"], fix["line"]), after fix["file"] was normalized
FixKey(fix) == <<NormalizePath(fix.file), fix.line>>

\* Mutant of DedupVisit: a later patch with a key already seen replaces the
\* earlier one (last occurrence wins).
DedupVisit_LastWins(acc, fix0) ==
    LET fix == [fix0 EXCEPT !.file = NormalizePath(fix0.file)]
    IN IF FixKey(fix) \in acc.seen
       THEN [acc EXCEPT !.unique =
                [i \in 1..Len(acc.unique) |->
                    IF FixKey(acc.unique[i]) = FixKey(fix) THEN fix ELSE acc.unique[i]]]
       ELSE [seen |-> acc.seen \cup {FixKey(fix)}, unique |-> Append(acc.unique, fix)]

\* One pass of the loop of _deduplicate_fixes over (seen, unique).
DedupVisit(acc, fix0) ==
    LET fix == [fix0 EXCEPT !.file = NormalizePath(fix0.file)]
    IN IF FixKey(fix) \in acc.seen
       THEN acc
       ELSE [seen |-> acc.seen \cup {FixKey(fix)}, unique |-> Append(acc.unique, fix)]

RECURSIVE DedupLoop(_, _)
DedupLoop(acc, fixes) ==
    IF fixes = <<>> THEN acc ELSE DedupLoop(DedupVisit(acc, Head(fixes)), Tail(fixes))

\* _deduplicate_fixes
DeduplicateFixes(fixes) == DedupLoop([seen |-> {}, unique |-> <<>>], fixes).unique

\* The four scans, in the order detect_and_fix_deterministic concatenates them.
BugTypes == <<"SYNTAX", "IMPORT", "LINTING", "INDENTATION">>
ScanRank(t) == CHOOSE r \in 1..Len(BugTypes) : BugTypes[r] = t

\* (file, line) as the scans and a linter may spell them: "a", "./a", ".\a"
\* name one file, "b" another.
CandidateTargets ==
    {<<<<"a">>, 1>>, <<<<"a">>, 2>>, <<<<".", "/", "a">>, 1>>,
     <<<<".", "\\", "a">>, 1>>, <<<<"b">>, 1>>}

Candidates ==
    {[file |-> t[1], line |-> t[2], bug_type |-> BugTypes[r]] :
        t \in CandidateTargets, r \in 1..Len(BugTypes)}

\* all_fixes: the scans' lists one after the other, so bug types never go back.
RECURSIVE ScanLists(_)
ScanLists(n) ==
    IF n = 0 THEN {<<>>}
    ELSE LET shorter == ScanLists(n - 1)
             longest == {t \in shorter : Len(t) = n - 1}
         IN shorter \cup
            UNION {{Append(s, c) : c \in {d \in Candidates :
                        s = <<>> \/ ScanRank(s[Len(s)].bug_type) <= ScanRank(d.bug_type)}} :
                   s \in longest}

\* ------------------------------------------------------------------ SpecDedup
InitDedup ==
    /\ dd_in \in ScanLists(MaxCandidates)
    /\ dd_out = <<>>
    /\ dd_done = FALSE
    /\ ws = <<>> /\ fx_last = <<>> /\ fx_status = <<>> /\ fx_prev = <<>>
    /\ flake8 = "absent" /\ dt_pc = "off" /\ dt_fixes = <<>> /\ dt_again = <<>>
    /\ ServerOff /\ PipeOff /\ CallOff

\* all_fixes = _deduplicate_fixes(all_fixes)
Deduplicate ==
    /\ ~dd_done
    /\ dd_out' = DeduplicateFixes(dd_in)
    /\ dd_done' = TRUE
    /\ UNCHANGED <<dd_in, fixerVars, detectVars, serverVars, pipeVars>>

NextDedup == Deduplicate

SpecDedup == InitDedup /\ [][NextDedup]_vars

\* ------------------------------------------------------------------ claims: deduplication
\* The list with every path normalized, as the pass stores it.
NormalizedList(fixes) ==
    [i \in 1..Len(fixes) |-> [fixes[i] EXCEPT !.file = NormalizePath(fixes[i].file)]]
\* The positions that are the first of their (file, line) in a list.
FirstOfKey(fixes) ==
    {i \in 1..Len(fixes) :
        \A j \in 1..(i - 1) :
            <<fixes[j].file, fixes[j].line>> # <<fixes[i].file, fixes[i].line>>}

\* C5 (dedup law): no two survivors share (normalized file, line); of every
\* (file, line) of the input exactly the first candidate, in scan order,
\* survives; survivors keep their relative order.
C5_DedupLaw ==
    dd_done =>
        LET in == NormalizedList(dd_in)
            first == FirstOfKey(in)
        IN /\ FirstOfKey(dd_out) = 1..Len(dd_out)
           /\ Len(dd_out) = Cardinality(first)
           /\ \A i \in first :
                 dd_out[Cardinality({j \in first : j <= i})] = in[i]

\* Witness of C5: candidates of two different scans shared a (file, line)
\* under differently spelled paths and one of them was dropped.
C5_Witness ==
    /\ dd_done
    /\ Len(dd_out) >= 2
    /\ \E i, j \in 1..Len(dd_in) :
          /\ i < j
          /\ dd_in[i].file # dd_in[j].file
          /\ dd_in[i].bug_type # dd_in[j].bug_type
          /\ NormalizePath(dd_in[i].file) = NormalizePath(dd_in[j].file)
          /\ dd_in[i].line = dd_in[j].line
          /\ i \in FirstOfKey(NormalizedList(dd_in))

\* ------------------------------------------------------------------ fixer.py: the whole list
\* apply_fixes(repo_path, fixes): the workspace it leaves and `results`, or,
\* at a patch without "file" (fix["file"] stands before the try), the
\* workspace it leaves and the KeyError raised.
RECURSIVE ApplyFixesFrom(_, _, _)
ApplyFixesFrom(w, fixes, results) ==
    IF fixes = <<>> THEN [ws |-> w, results |-> results, raised |-> FALSE]
    ELSE IF "file" \notin DOMAIN Head(fixes)
    THEN [ws |-> w, results |-> results, raised |-> TRUE]
    ELSE LET r == ApplyFix(w, Head(fixes))
         IN ApplyFixesFrom(r.ws, Tail(fixes), Append(results, r.fix))

ApplyFixes(w, fixes) == ApplyFixesFrom(w, fixes, <<>>)

\* sum(1 for f in applied if f["status"] == "applied")
AppliedCount(applied) == Cardinality({i \in 1..Len(applied) : applied[i].status = "applied"})

\* ------------------------------------------------------------------ deterministic_fixer.py: the scans
\* f.read() in text mode: the content with every line terminator as "\n".
ReadText(content) == Flatten(ReadLines(content))

\* str.split("\n")
RECURSIVE SplitFrom(_, _)
SplitFrom(s, cur) ==
    IF s = <<>> THEN <<cur>>
    ELSE IF Head(s) = LF THEN <<cur>> \o SplitFrom(Tail(s), <<>>)
    ELSE SplitFrom(Tail(s), Append(cur, Head(s)))

SplitLines(source) == SplitFrom(source, <<>>)

\* The files os.walk visits, in the order it visits them (a fixed but
\* arbitrary directory order).
RECURSIVE WalkOrder(_)
WalkOrder(paths) ==
    IF paths = {} THEN <<>>
    ELSE LET p == CHOOSE q \in paths : TRUE IN <<p>> \o WalkOrder(paths \ {p})

\* fname.startswith("test_") or fname.endswith("_test.py") or fname == "conftest.py"
IsTestFile(p) == p[Len(p)] \in {"test_a", "a_test", "conftest"}

\* Block-opening statements without their colon. The alternatives of
\* colon_keywords that end in ".+" or ".*" (class, if, elif, for, while, with,
\* except) accept any tail, a ':' included; def, else, try and finally do not.
OpenersWithTail == {"if x", "class C", "for x in y", "while x", "except E"}
OpenersExact == {"def f(x)", "else", "try", "finally"}
\* Statements that are no block openers and yet match the alternative
\* "except.*" of colon_keywords, and statements that do not parse.
ExceptPrefixed == {"exceptions = 1"}
InvalidStatements == {"x = 1 +"}

\* re.match(colon_keywords, line)
MatchesColonKeywords(line) ==
    LET core == Strip(line)
    IN /\ core # <<>>
       /\ \/ Head(core) \in OpenersWithTail \cup ExceptPrefixed
          \/ Head(core) \in OpenersExact /\ Len(core) = 1

\* not line.rstrip().endswith(":")
LacksColon(line) == ~EndsWith(RStrip(line), <<":">>)

\* Mutant of SyntaxFix: the replacement is the line itself.
SyntaxFix_NoColon(rel_path, line_no, line, description) ==
    [file |-> rel_path, line |-> line_no, old_code |-> RStrip(line),
     new_code |-> RStrip(line), bug_type |-> "SYNTAX", description |-> description]

\* The patch of _try_fix_syntax: old_code = line.rstrip(); new_code = old_code + ":"
SyntaxFix(rel_path, line_no, line, description) ==
    [file |-> rel_path, line |-> line_no, old_code |-> RStrip(line),
     new_code |-> Append(RStrip(line), ":"), bug_type |-> "SYNTAX",
     description |-> description]

\* "expected ':'" in error_msg.lower() or "expected ':'": the right operand is
\* a non-empty string, so the condition holds for every message.
ExpectedColonClass(error_msg) == (error_msg = "expected ':'") \/ TRUE

\* _try_fix_syntax: <<fix>>, or <<>> for None.
TryFixSyntax(rel_path, source, line_no, error_msg) ==
    LET lines == SplitLines(source)
    IN IF line_no < 1 \/ line_no > Len(lines) THEN <<>>
       ELSE IF MatchesColonKeywords(lines[line_no]) /\ LacksColon(lines[line_no])
       THEN <<SyntaxFix(rel_path, line_no, lines[line_no], <<"Add missing colon at end of statement">>)>>
       ELSE IF /\ ExpectedColonClass(error_msg)
               /\ line_no >= 2
               /\ MatchesColonKeywords(lines[line_no - 1])
               /\ LacksColon(lines[line_no - 1])
       THEN <<SyntaxFix(rel_path, line_no - 1, lines[line_no - 1],
                        <<"Add missing colon at end of function/class definition">>)>>
       ELSE <<>>

\* ast.parse(source) for sources whose lines are unindented and not blank:
\* simple statements, imports and block openers with or without colon. The
\* parser reports the first line it cannot accept: an opener that lacks its
\* colon (at its own line) or that has its colon and no indented body (at the
\* following line, or at its own line when it is the last), or a statement
\* that does not parse (at its own line).
IsOpener(line) == line # <<>> /\ Head(line) \in OpenersWithTail \cup OpenersExact
IsInvalid(line) ==
    /\ line # <<>>
    /\ \/ Head(line) \in InvalidStatements
       \/ Head(line) \in ExceptPrefixed /\ ~LacksColon(line)

AstParse(source) ==
    LET all == SplitLines(source)
        lines == IF all[Len(all)] = <<>> THEN SubSeq(all, 1, Len(all) - 1) ELSE all
        bad == {i \in 1..Len(lines) : IsOpener(lines[i]) \/ IsInvalid(lines[i])}
    IN IF bad = {} THEN [ok |-> TRUE, lineno |-> 0, msg |-> ""]
       ELSE LET i == CHOOSE k \in bad : \A j \in bad : k <= j
            IN IF IsInvalid(lines[i])
               THEN [ok |-> FALSE, lineno |-> i, msg |-> "invalid syntax"]
               ELSE IF LacksColon(lines[i])
               THEN [ok |-> FALSE, lineno |-> i, msg |-> "expected ':'"]
               ELSE [ok |-> FALSE,
                     lineno |-> IF i < Len(lines) THEN i + 1 ELSE i,
                     msg |-> "expected an indented block"]

\* A byte that starts no UTF-8 sequence: open(fpath, "r", encoding="utf-8")
\* raises UnicodeDecodeError when the file is read.
INVALID_BYTE == "0xff"
Decodes(content) == \A i \in 1..Len(content) : content[i] # INVALID_BYTE

\* with open(...) as f: source = f.read() sits in a try whose only handler is
\* "except SyntaxError": the error of a file that cannot be decoded leaves
\* _detect_syntax_errors, and detect_and_fix_deterministic with it.
SyntaxScanRaises(w) == \E p \in DOMAIN w : ~Decodes(w[p])

\* _detect_syntax_errors
RECURSIVE DetectSyntaxIn(_, _)
DetectSyntaxIn(w, paths) ==
    IF paths = <<>> THEN <<>>
    ELSE LET source == ReadText(w[Head(paths)])
             e == AstParse(source)
         IN (IF e.ok THEN <<>> ELSE TryFixSyntax(Head(paths), source, e.lineno, e.msg))
            \o DetectSyntaxIn(w, Tail(paths))

DetectSyntaxErrors(w) == DetectSyntaxIn(w, WalkOrder(DOMAIN w))

\* Module names: importlib.util.find_spec finds "os" and does not find
\* "missing"; ".rel" is a relative import.
Installed == {"os"}
ModuleNames == {"os", "missing", "a", ".rel"}

\* local_modules: the .py files (and directories) of the repository root.
LocalModules(w) == {p[1] : p \in {q \in DOMAIN w : Len(q) = 1}}

\* The module named by "import xyz" or "from xyz import ...", as a sequence of
\* zero or one name (m_import, m_from).
ImportedModule(stripped) ==
    LET rest == LStrip(Tail(stripped))
    IN IF /\ Len(stripped) >= 3
          /\ Head(stripped) = "import"
          /\ IsSpace(stripped[2])
          /\ Head(rest) \in ModuleNames
       THEN <<Head(rest)>>
       ELSE IF /\ Len(stripped) >= 5
               /\ Head(stripped) = "from"
               /\ IsSpace(stripped[2])
               /\ Head(rest) \in ModuleNames
               /\ Len(rest) >= 3
               /\ IsSpace(rest[2])
               /\ Head(LStrip(Tail(rest))) = "import"
       THEN <<Head(rest)>>
       ELSE <<>>

\* The body of `for i, line in enumerate(lines)` of _detect_import_errors.
ImportFixOf(w, rel_path, i, line) ==
    LET stripped == Strip(line)
        module_name == IF stripped = <<>> \/ Head(stripped) = "#" THEN <<>>
                       ELSE ImportedModule(stripped)
    IN IF module_name = <<>> THEN <<>>
       ELSE IF Head(module_name) = ".rel" THEN <<>>
       ELSE IF Head(module_name) \in LocalModules(w) THEN <<>>
       ELSE IF Head(module_name) \in Installed THEN <<>>
       ELSE <<[file |-> rel_path, line |-> i, old_code |-> RStripNewline(line),
               new_code |-> <<>>, bug_type |-> "IMPORT",
               description |-> <<"Remove import of non-existent module", Head(module_name)>>]>>

RECURSIVE ImportFixesFrom(_, _, _, _)
ImportFixesFrom(w, rel_path, lines, i) ==
    IF i > Len(lines) THEN <<>>
    ELSE ImportFixOf(w, rel_path, i, lines[i]) \o ImportFixesFrom(w, rel_path, lines, i + 1)

\* _detect_import_errors
RECURSIVE DetectImportIn(_, _)
DetectImportIn(w, paths) ==
    IF paths = <<>> THEN <<>>
    ELSE (IF IsTestFile(Head(paths)) \/ ~Decodes(w[Head(paths)]) THEN <<>>
          ELSE ImportFixesFrom(w, Head(paths), ReadLines(w[Head(paths)]), 1))
         \o DetectImportIn(w, Tail(paths))

DetectImportErrors(w) == DetectImportIn(w, WalkOrder(DOMAIN w))

\* flake8 (an external tool), as far as the scans read its output: a file that
\* does not parse yields only E999, which neither scan selects; in a file that
\* parses, every import statement is an unused import (F401: the modelled
\* files never use a name), and every line indented by a width that is not a
\* multiple of four is E111. Test files are excluded; the target "." makes
\* flake8 print paths as "./a".
Flake8Path(p) == <<".", "/">> \o p

RECURSIVE Flake8Lines(_, _, _, _)
Flake8Lines(p, lines, i, select) ==
    IF i > Len(lines) THEN <<>>
    ELSE LET stripped == Strip(lines[i])
             m == IF stripped = <<>> THEN <<>> ELSE ImportedModule(stripped)
             indent == Len(RStripNewline(lines[i])) - Len(LStrip(RStripNewline(lines[i])))
         IN (IF select = "F401" /\ m # <<>>
             THEN <<[path |-> Flake8Path(p), row |-> i, code |-> "F401", module |-> Head(m)]>>
             ELSE IF select = "E1" /\ stripped # <<>> /\ indent % 4 # 0
             THEN <<[path |-> Flake8Path(p), row |-> i, code |-> "E111", module |-> ""]>>
             ELSE <<>>)
            \o Flake8Lines(p, lines, i + 1, select)

RECURSIVE Flake8Files(_, _, _)
Flake8Files(w, paths, select) ==
    IF paths = <<>> THEN <<>>
    ELSE (IF IsTestFile(Head(paths)) \/ ~AstParse(ReadText(w[Head(paths)])).ok THEN <<>>
          ELSE Flake8Lines(Head(paths), ReadLines(w[Head(paths)]), 1, select))
         \o Flake8Files(w, Tail(paths), select)

\* subprocess.run(["flake8", "--select=...", ...]).stdout, one finding per line
Flake8Output(w, select) == Flake8Files(w, WalkOrder(DOMAIN w), select)

\* The body of `for line in output.split("\n")` of _detect_linting_errors.
LintFixOf(w, finding) ==
    LET fpath == NormalizePath(finding.path)
        file_lines == ReadLines(w[fpath])
    IN IF finding.code # "F401" THEN <<>>
       ELSE IF finding.module = "pytest" THEN <<>>
       ELSE IF fpath \notin DOMAIN w THEN <<>>
       ELSE IF finding.row > Len(file_lines) THEN <<>>
       ELSE <<[file |-> fpath, line |-> finding.row,
               old_code |-> RStripNewline(file_lines[finding.row]),
               new_code |-> <<>>, bug_type |-> "LINTING",
               description |-> <<"Remove unused import", finding.module>>]>>

RECURSIVE LintFixes(_, _)
LintFixes(w, findings) ==
    IF findings = <<>> THEN <<>>
    ELSE LintFixOf(w, Head(findings)) \o LintFixes(w, Tail(findings))

\* _detect_linting_errors: without the flake8 binary (FileNotFoundError) the
\* scan is skipped.
DetectLintingErrors(w, fl) ==
    IF fl = "absent" THEN <<>> ELSE LintFixes(w, Flake8Output(w, "F401"))

\* len(prev) - len(prev.lstrip())
IndentOf(prev) == Len(prev) - Len(LStrip(prev))

\* " " * n
Spaces(n) == [i \in 1..n |-> " "]

\* _determine_correct_indent(lines, idx), idx 0-based: the scan from line
\* idx - 1 back to line 0. The loop over the block-ending keywords only
\* continues itself and decides nothing.
RECURSIVE DetermineCorrectIndentFrom(_, _)
DetermineCorrectIndentFrom(lines, i) ==
    IF i < 0 THEN <<>>
    ELSE LET prev == lines[i + 1]
             stripped == Strip(prev)
         IN IF stripped = <<>> \/ Head(stripped) = "#"
            THEN DetermineCorrectIndentFrom(lines, i - 1)
            ELSE IF EndsWith(stripped, <<":">>) THEN Spaces(IndentOf(prev) + 4)
            ELSE IF IndentOf(prev) % 4 = 0 THEN Spaces(IndentOf(prev))
            ELSE DetermineCorrectIndentFrom(lines, i - 1)

\* Mutant of DetermineCorrectIndent: the scan starts at the line itself.
DetermineCorrectIndent_FromSelf(lines, idx) == DetermineCorrectIndentFrom(lines, idx)

DetermineCorrectIndent(lines, idx) == DetermineCorrectIndentFrom(lines, idx - 1)

\* The body of `for line_no, code, text in errors` of _detect_indentation_errors.
IndentFixOf(w, finding) ==
    LET fpath == NormalizePath(finding.path)
        file_lines == ReadLines(w[fpath])
        old_line == file_lines[finding.row]
        old_code == RStripNewline(old_line)
        new_code == DetermineCorrectIndent(file_lines, finding.row - 1)
                        \o RStripNewline(LStrip(old_line))
    IN IF fpath \notin DOMAIN w THEN <<>>
       ELSE IF finding.row > Len(file_lines) THEN <<>>
       ELSE IF old_code = new_code THEN <<>>
       ELSE <<[file |-> fpath, line |-> finding.row, old_code |-> old_code,
               new_code |-> new_code, bug_type |-> "INDENTATION",
               description |-> <<"Fix indentation to PEP8 standard (4-space)">>]>>

RECURSIVE IndentFixes(_, _)
IndentFixes(w, findings) ==
    IF findings = <<>> THEN <<>>
    ELSE IndentFixOf(w, Head(findings)) \o IndentFixes(w, Tail(findings))

\* _detect_indentation_errors (findings arrive grouped by file already)
DetectIndentationErrors(w, fl) ==
    IF fl = "absent" THEN <<>> ELSE IndentFixes(w, Flake8Output(w, "E1"))

\* detect_and_fix_deterministic(repo_path)["fixes"]
DetectAndFixDeterministic(w, fl) ==
    DeduplicateFixes(
        DetectSyntaxErrors(w) \o DetectImportErrors(w)
        \o DetectLintingErrors(w, fl) \o DetectIndentationErrors(w, fl))

\* ------------------------------------------------------------------ SpecIndent
\* _determine_correct_indent and the patch of _detect_indentation_errors for
\* one reported line of one file.
MaxIndentLines == 3

\* Lines indented by 0, 2 and 4 blanks, with and without ':' at the end, a
\* blank line and comment lines.
IndentLineTexts ==
    {<<"x">>, <<" ", " ", "x">>, <<" ", " ", " ", " ", "x">>, <<"if x", ":">>,
     <<" ", " ", "if x", ":">>, <<>>, <<"#", "c">>, <<" ", " ", "#", "c">>}

InitIndent ==
    /\ \E texts \in SeqsUpTo(IndentLineTexts, MaxIndentLines) \ {<<>>} :
          \E idx \in 0..(Len(texts) - 1) :
             arg = [lines |-> [i \in 1..Len(texts) |-> texts[i] \o <<LF>>], idx |-> idx]
    /\ ret = <<>>
    /\ called = FALSE
    /\ ServerOff /\ PipeOff
    /\ ws = <<>> /\ fx_last = <<>> /\ fx_status = <<>> /\ fx_prev = <<>>
    /\ dd_in = <<>> /\ dd_out = <<>> /\ dd_done = FALSE
    /\ flake8 = "absent" /\ dt_pc = "off" /\ dt_fixes = <<>> /\ dt_again = <<>>

\* correct_indent = _determine_correct_indent(file_lines, line_no - 1);
\* if old_code != new_code: fixes.append(...)
DetermineIndent ==
    /\ ~called
    /\ ret' = [correct_indent |-> DetermineCorrectIndent(arg.lines, arg.idx),
               fixes |-> IndentFixOf([p \in {A_PY} |-> Flatten(arg.lines)],
                                     [path |-> A_PY, row |-> arg.idx + 1,
                                      code |-> "E111", module |-> ""])]
    /\ called' = TRUE
    /\ UNCHANGED <<arg, current_run, req_pc, worker_pc, sseVars, fixerVars, dedupVars,
                   detectVars, pipeVars>>

SpecIndent == InitIndent /\ [][DetermineIndent]_vars

\* ------------------------------------------------------------------ SpecDetect
\* Lines of the repositories handed to the detector: unindented statements.
DetectLineTexts ==
    {<<"import", " ", "missing">>, <<"import", " ", "os">>, <<"x = 1">>, <<"if x">>,
     <<"if x", " ">>, <<"exceptions = 1">>, <<"x = 1 +">>}

\* Text files, and two files that are not UTF-8 text.
DetectFiles ==
    {FileOf(t, <<LF>>, TRUE) : t \in SeqsUpTo(DetectLineTexts, MaxDetectLines)}
        \cup {<<INVALID_BYTE>>, <<"if x", LF, INVALID_BYTE>>}

InitDetect ==
    /\ ws \in {[p \in {A_PY} |-> c] : c \in DetectFiles}
    /\ flake8 \in {"absent", "installed"}
    /\ dt_pc = "start"
    /\ dt_fixes = <<>>
    /\ dt_again = <<>>
    /\ fx_last = <<>> /\ fx_status = <<>> /\ fx_prev = ws
    /\ dd_in = <<>> /\ dd_out = <<>> /\ dd_done = FALSE
    /\ ServerOff /\ PipeOff /\ CallOff

\* det_result = detect_and_fix_deterministic(repo_path)
RunDetector ==
    /\ dt_pc = "start"
    /\ IF SyntaxScanRaises(ws)
       THEN dt_pc' = "raised" /\ UNCHANGED dt_fixes
       ELSE dt_fixes' = DetectAndFixDeterministic(ws, flake8) /\ dt_pc' = "detected"
    /\ UNCHANGED <<ws, fx_last, fx_status, fx_prev, dedupVars, flake8, dt_again, serverVars, pipeVars>>

\* if det_result["fixes"]: applied = apply_fixes(repo_path, det_result["fixes"])
ApplyDetected ==
    /\ dt_pc = "detected"
    /\ LET r == ApplyFixes(ws, dt_fixes)
       IN /\ ws' = (IF dt_fixes # <<>> THEN r.ws ELSE ws)
          /\ dt_fixes' = (IF dt_fixes # <<>> THEN r.results ELSE dt_fixes)
    /\ fx_prev' = ws
    /\ dt_pc' = "applied"
    /\ UNCHANGED <<fx_last, fx_status, dedupVars, flake8, dt_again, serverVars, pipeVars>>

\* The detector run a second time, with no model-assisted pass in between.
RunDetectorAgain ==
    /\ dt_pc = "applied"
    /\ dt_again' = DetectAndFixDeterministic(ws, flake8)
    /\ dt_pc' = "redetected"
    /\ UNCHANGED <<ws, fx_last, fx_status, fx_prev, dedupVars, flake8, dt_fixes, serverVars, pipeVars>>

NextDetect == RunDetector \/ ApplyDetected \/ RunDetectorAgain

SpecDetect == InitDetect /\ [][NextDetect]_vars

\* ------------------------------------------------------------------ claims: detector
\* C6 (idempotence of the deterministic pass): once the detector's patches
\* have been applied, a second run of the detector returns no patch (on a tree
\* in which the first run found nothing, too).
C6_Idempotent ==
    dt_pc = "redetected" => dt_again = <<>>

\* ------------------------------------------------------------------ app.py: SpecServer
\* Each `with run_lock:` block is one step: its body takes no other lock and
\* waits for nothing, so the lock makes it atomic.

\* A client sends POST /api/run; Flask hands it to a handler thread.
Arrive(r) ==
    /\ req_pc[r] = "none"
    /\ req_pc' = [req_pc EXCEPT ![r] = "start_run"]
    /\ UNCHANGED <<current_run, worker_pc, sseVars, callVars, fixerVars, dedupVars, detectVars, pipeVars>>

\* with run_lock: if current_run["status"] == "running": return 409
CheckRunning(r) ==
    /\ req_pc[r] = "start_run"
    /\ req_pc' = [req_pc EXCEPT ![r] =
                     IF current_run.status = "running" THEN "409" ELSE "checked"]
    /\ UNCHANGED <<current_run, worker_pc, sseVars, callVars, fixerVars, dedupVars, detectVars, pipeVars>>

\* The three `if not ...: return 400` on the fields of the request body.
RejectInvalid(r) ==
    /\ req_pc[r] = "checked"
    /\ req_pc' = [req_pc EXCEPT ![r] = "400"]
    /\ UNCHANGED <<current_run, worker_pc, sseVars, callVars, fixerVars, dedupVars, detectVars, pipeVars>>

\* thread = threading.Thread(target=run_agent_background, ...); thread.start();
\* return 202
StartThread(r) ==
    /\ req_pc[r] = "checked"
    /\ worker_pc' = [worker_pc EXCEPT ![r] = "started"]
    /\ req_pc' = [req_pc EXCEPT ![r] = "202"]
    /\ UNCHANGED <<current_run, sseVars, callVars, fixerVars, dedupVars, detectVars, pipeVars>>

\* run_agent_background: with run_lock: current_run["status"] = "running"
SetRunning(r) ==
    /\ worker_pc[r] = "started"
    /\ current_run' = [status |-> "running", result |-> <<>>]
    /\ worker_pc' = [worker_pc EXCEPT ![r] = "run_pipeline"]
    /\ UNCHANGED <<req_pc, sseVars, callVars, fixerVars, dedupVars, detectVars, pipeVars>>

\* The final_status values a report returned by run_pipeline carries: its own
\* except clause turns every exception of the steps into a returned ERROR report.
ReportStatuses == {"PASSED", "FAILED", "MAX_ITERATIONS", "ERROR"}

\* result = run_pipeline(...) returns; with run_lock: status = "done"
PipelineReturns(r) ==
    /\ worker_pc[r] = "run_pipeline"
    /\ \E fs \in ReportStatuses :
          current_run' = [status |-> "done", result |-> <<"result", r, fs>>]
    /\ worker_pc' = [worker_pc EXCEPT ![r] = "finished"]
    /\ UNCHANGED <<req_pc, sseVars, callVars, fixerVars, dedupVars, detectVars, pipeVars>>

\* except Exception: with run_lock: status = "error"
PipelineRaises(r) ==
    /\ worker_pc[r] = "run_pipeline"
    /\ current_run' = [status |-> "error", result |-> <<"ERROR">>]
    /\ worker_pc' = [worker_pc EXCEPT ![r] = "finished"]
    /\ UNCHANGED <<req_pc, sseVars, callVars, fixerVars, dedupVars, detectVars, pipeVars>>

InitServer ==
    /\ ServerOff /\ PipeOff /\ CallOff
    /\ ws = <<>> /\ fx_last = <<>> /\ fx_status = <<>> /\ fx_prev = <<>>
    /\ dd_in = <<>> /\ dd_out = <<>> /\ dd_done = FALSE
    /\ flake8 = "absent" /\ dt_pc = "off" /\ dt_fixes = <<>> /\ dt_again = <<>>

NextServer ==
    \/ \E r \in Requests : Arrive(r)
    \/ \E r \in Requests : CheckRunning(r)
    \/ \E r \in Requests : RejectInvalid(r)
    \/ \E r \in Requests : StartThread(r)
    \/ \E r \in Requests : SetRunning(r)
    \/ \E r \in Requests : PipelineReturns(r)
    \/ \E r \in Requests : PipelineRaises(r)

SpecServer == InitServer /\ [][NextServer]_vars

\* ------------------------------------------------------------------ claims: server
\* The workers that are executing run_agent_background.
Executing == {r \in Requests : worker_pc[r] \in {"started", "run_pipeline"}}

\* C1 (single-flight): at every moment at most one healing run
\* (run_agent_background / run_pipeline) is executing.
C1_SingleFlight == Cardinality(Executing) <= 1

\* ------------------------------------------------------------------ app.py: SpecSSE
\* threading.Lock: acquire succeeds when nobody holds the lock.
CanAcquire_Always(lock) == TRUE
CanAcquire(lock) == lock = <<>>

\* The end of a `with sse_clients_lock:` block.
Release_Held(lock) == lock
Release(lock) == <<>>

\* queue.Queue() has maxsize 0: put_nowait never finds it full.
Full_AtOne(q) == Len(q) >= 1
Full(q) == FALSE

\* sse_clients.remove(q): the list without the first occurrence of q.
Remove(clients, q) ==
    IF \E k \in DOMAIN clients : clients[k] = q
    THEN LET k == CHOOSE k \in DOMAIN clients :
                     clients[k] = q /\ \A j \in 1..(k - 1) : clients[j] # q
         IN SubSeq(clients, 1, k - 1) \o SubSeq(clients, k + 1, Len(clients))
    ELSE clients

\* for q in dead: sse_clients.remove(q)
RECURSIVE RemoveAll(_, _)
RemoveAll(clients, dead) ==
    IF dead = <<>> THEN clients
    ELSE RemoveAll(Remove(clients, Head(dead)), Tail(dead))

\* The number of events the threads of `runs` have emitted.
RECURSIVE Emitted(_)
Emitted(runs) ==
    IF runs = {} THEN 0
    ELSE LET b == CHOOSE b \in runs : TRUE
         IN broadcasting[b].n + Emitted(runs \ {b})

\* The event a thread is broadcasting: the n-th event of run b.
EventOf(b) == <<b, broadcasting[b].n>>

sseFrame == <<current_run, req_pc, worker_pc, callVars, fixerVars, dedupVars, detectVars,
              pipeVars>>

\* A client opens GET /api/events and the generator starts: q = queue.Queue();
\* with sse_clients_lock: sse_clients.append(q).  The block waits for nothing
\* once it has the lock, so it is one step.
Subscribe(l) ==
    /\ stream_pc[l] = "none"
    /\ CanAcquire(sse_clients_lock)
    /\ sse_clients' = Append(sse_clients, l)
    /\ subscribed_at' = [subscribed_at EXCEPT ![l] = Len(published)]
    /\ stream_pc' = [stream_pc EXCEPT ![l] = "listening"]
    /\ UNCHANGED <<sse_clients_lock, queue, broadcasting, enqueued, published,
                   unsubscribed_at, sseFrame>>

\* data = q.get(timeout=30); yield f"data: {data}\n\n"
GetAndYield(l) ==
    /\ stream_pc[l] = "listening"
    /\ queue[l] # <<>>
    /\ queue' = [queue EXCEPT ![l] = Tail(@)]
    /\ UNCHANGED <<sse_clients, sse_clients_lock, stream_pc, broadcasting, enqueued,
                   published, subscribed_at, unsubscribed_at, sseFrame>>

\* The client has gone and the generator is closed (GeneratorExit at the
\* yield); finally: with sse_clients_lock: if q in sse_clients:
\* sse_clients.remove(q).  Until the lock is free the stream stays subscribed.
Unsubscribe(l) ==
    /\ stream_pc[l] = "listening"
    /\ CanAcquire(sse_clients_lock)
    /\ sse_clients' = Remove(sse_clients, l)
    /\ unsubscribed_at' = [unsubscribed_at EXCEPT ![l] = Len(published)]
    /\ stream_pc' = [stream_pc EXCEPT ![l] = "gone"]
    /\ UNCHANGED <<sse_clients_lock, queue, broadcasting, enqueued, published,
                   subscribed_at, sseFrame>>

\* broadcast_event(event_type, data) is called: event_data = json.dumps(...)
BroadcastEvent(b) ==
    /\ broadcasting[b].pc = "idle"
    /\ Emitted(Runs) < MaxEvents
    /\ broadcasting' = [broadcasting EXCEPT ![b] =
                           [pc |-> "waiting", n |-> @.n + 1, i |-> 0, dead |-> <<>>]]
    /\ UNCHANGED <<sse_clients, sse_clients_lock, queue, stream_pc, enqueued,
                   published, subscribed_at, unsubscribed_at, sseFrame>>

\* with sse_clients_lock: dead = []  (the lock is acquired)
AcquireLock(b) ==
    /\ broadcasting[b].pc = "waiting"
    /\ CanAcquire(sse_clients_lock)
    /\ sse_clients_lock' = <<"run", b>>
    /\ published' = Append(published, EventOf(b))
    /\ broadcasting' = [broadcasting EXCEPT ![b].pc = "looping", ![b].i = 1]
    /\ UNCHANGED <<sse_clients, queue, stream_pc, enqueued, subscribed_at,
                   unsubscribed_at, sseFrame>>

\* One turn of `for q in sse_clients:` -- q.put_nowait(event_data), or
\* dead.append(q) when it raises.
PutNowait(b) ==
    /\ broadcasting[b].pc = "looping"
    /\ broadcasting[b].i <= Len(sse_clients)
    /\ LET q == sse_clients[broadcasting[b].i]
       IN IF Full(queue[q])
          THEN /\ broadcasting' = [broadcasting EXCEPT ![b].i = @ + 1,
                                                       ![b].dead = Append(@, q)]
               /\ UNCHANGED <<queue, enqueued>>
          ELSE /\ queue' = [queue EXCEPT ![q] = Append(@, EventOf(b))]
               /\ enqueued' = [enqueued EXCEPT ![q] = Append(@, EventOf(b))]
               /\ broadcasting' = [broadcasting EXCEPT ![b].i = @ + 1]
    /\ UNCHANGED <<sse_clients, sse_clients_lock, stream_pc, published,
                   subscribed_at, unsubscribed_at, sseFrame>>

\* The loop is over: for q in dead: sse_clients.remove(q); the with block
\* ends and broadcast_event returns.
Return(b) ==
    /\ broadcasting[b].pc = "looping"
    /\ broadcasting[b].i > Len(sse_clients)
    /\ sse_clients' = RemoveAll(sse_clients, broadcasting[b].dead)
    /\ sse_clients_lock' = Release(sse_clients_lock)
    /\ broadcasting' = [broadcasting EXCEPT ![b] = Idle(@.n)]
    /\ UNCHANGED <<queue, stream_pc, enqueued, published, subscribed_at,
                   unsubscribed_at, sseFrame>>

NextSSE ==
    \/ \E l \in Listeners : Subscribe(l)
    \/ \E l \in Listeners : GetAndYield(l)
    \/ \E l \in Listeners : Unsubscribe(l)
    \/ \E b \in Runs : BroadcastEvent(b)
    \/ \E b \in Runs : AcquireLock(b)
    \/ \E b \in Runs : PutNowait(b)
    \/ \E b \in Runs : Return(b)

SpecSSE == InitServer /\ [][NextSSE]_vars

\* A thread inside broadcast_event runs on.  Nothing is assumed of the
\* streams: they may never connect, never read their queue and never close.
SpecSSELive ==
    SpecSSE /\ \A b \in Runs : WF_vars(AcquireLock(b) \/ PutNowait(b) \/ Return(b))

\* ------------------------------------------------------------------ test_runner.py: parse_pytest_output
\* The output of the test command is a sequence of lines; a line is
\*   [kind |-> "failed", path, node]     FAILED <path>::<node> - ...
\*   [kind |-> "header", name, width]    <width underscores> <name> <width underscores>
\*   [kind |-> "location", path, line]   <path>:<line>: AssertionError
\*   [kind |-> "collecting", path, line] ERROR collecting <path>, and a detail
\*                                       naming `line <line>` (none when 0)
\*   [kind |-> "text"]                   E   assert 1 == 2
\* A path and a node id are token sequences.

\* The tokens the classes [\w/\\\.] and \w accept.
PathChars == {"tests", "my", "/", "\\", "t.py"}
WordChars == {"test_add", "test_sub", "TestCalc"}

\* The longest prefix of s made of tokens of `chars` (a greedy class+).
RECURSIVE Prefix(_, _)
Prefix(s, chars) ==
    IF s = <<>> \/ Head(s) \notin chars THEN <<>>
    ELSE <<Head(s)>> \o Prefix(Tail(s), chars)

\* The longest suffix of s made of tokens of `chars`.
RECURSIVE Suffix(_, _)
Suffix(s, chars) ==
    IF s = <<>> \/ s[Len(s)] \notin chars THEN <<>>
    ELSE Suffix(SubSeq(s, 1, Len(s) - 1), chars) \o <<s[Len(s)]>>

\* failed_pattern = FAILED\s+([\w/\\\.]+)::(\w+) on a line: the two groups as
\* <<path, test_name>>, or <<>> when the line does not match.
FailedMatch(l) ==
    IF /\ l.kind = "failed"
       /\ l.path # <<>>
       /\ Prefix(l.path, PathChars) = l.path
       /\ Prefix(l.node, WordChars) # <<>>
    THEN <<[path |-> l.path, test_name |-> Prefix(l.node, WordChars)]>>
    ELSE <<>>

\* failed_pattern.findall(output)
RECURSIVE FailedMatches(_)
FailedMatches(out) ==
    IF out = <<>> THEN <<>> ELSE FailedMatch(Head(out)) \o FailedMatches(Tail(out))

\* A line that holds a run of five or more underscores around one word.
IsBlockHeader(l) == l.kind = "header" /\ l.width >= 5

\* error_block_pattern.findall(output): each header of five or more underscores
\* with the lines up to the next such header, or to the end.
RECURSIVE ErrorBlocksFrom(_, _)
ErrorBlocksFrom(out, i) ==
    IF i > Len(out) THEN <<>>
    ELSE IF ~IsBlockHeader(out[i]) THEN ErrorBlocksFrom(out, i + 1)
    ELSE LET later == {j \in (i + 1)..Len(out) : IsBlockHeader(out[j])}
             j == IF later = {} THEN Len(out) + 1
                  ELSE CHOOSE k \in later : \A m \in later : k <= m
         IN <<[test_name |-> <<out[i].name>>, block |-> SubSeq(out, i + 1, j - 1)]>>
            \o ErrorBlocksFrom(out, j)

ErrorBlocks(out) == ErrorBlocksFrom(out, 1)

\* re.search(r"([\w/\\]+\.py):(\d+)", block): the first location of the block.
FileLineMatch(block) ==
    LET locs == SelectSeq(block, LAMBDA l : l.kind = "location")
    IN IF locs = <<>> THEN [file |-> <<"unknown">>, line |-> 0]
       ELSE [file |-> Suffix(locs[1].path, PathChars), line |-> locs[1].line]

\* The text of a line, as far as the scan for error_msg looks at it.
LineText(l) ==
    IF l.kind = "failed" THEN <<"FAILED ">> \o l.path \o <<"::">> \o l.node
    ELSE IF l.kind = "header" THEN <<"_", l.name, "_">>
    ELSE IF l.kind = "location" THEN l.path \o <<":", "AssertionError">>
    ELSE IF l.kind = "collecting" THEN <<"ERROR collecting ">> \o l.path
    ELSE <<"E", "assert">>

\* The last line of the block that is not empty and does not start with "_".
RECURSIVE ErrorMsg(_)
ErrorMsg(block) ==
    IF block = <<>> THEN <<>>
    ELSE LET t == LineText(block[Len(block)])
         IN IF Head(t) # "_" THEN t ELSE ErrorMsg(SubSeq(block, 1, Len(block) - 1))

\* The record of one error block.
BlockRecord(b) ==
    [test_name |-> b.test_name, file |-> ReplaceBackslash(FileLineMatch(b.block).file),
     line |-> FileLineMatch(b.block).line, error_message |-> ErrorMsg(b.block)]

\* The record made from one match of failed_pattern.
SummaryRecord(m) ==
    [test_name |-> m.test_name, file |-> ReplaceBackslash(m.path), line |-> 0,
     error_message |-> <<"Test ">> \o m.test_name \o <<" failed">>]

\* The record of one "ERROR collecting" line whose path the pattern accepts.
CollectionRecords(l) ==
    IF l.kind = "collecting" /\ Prefix(l.path, PathChars) # <<>>
    THEN <<[test_name |-> <<"collection_error:">> \o Prefix(l.path, PathChars),
            file |-> ReplaceBackslash(Prefix(l.path, PathChars)), line |-> l.line,
            error_message |-> IF l.line = 0 THEN <<>> ELSE <<"line">>]>>
    ELSE <<>>

RECURSIVE MapCat(_, _)
MapCat(F(_), s) == IF s = <<>> THEN <<>> ELSE F(Head(s)) \o MapCat(F, Tail(s))

\* Mutant of UseSummary: the summary lines are used whatever was found.
UseSummary_Always(errors, failed_matches) == failed_matches # <<>>
\* if not errors and failed_matches:
UseSummary(errors, failed_matches) == errors = <<>> /\ failed_matches # <<>>

\* parse_pytest_output(output, repo_path)
ParsePytestOutput(out) ==
    LET blocks == ErrorBlocks(out)
        errors == [i \in 1..Len(blocks) |-> BlockRecord(blocks[i])]
        failed_matches == FailedMatches(out)
        errors2 == IF UseSummary(errors, failed_matches)
                   THEN errors \o [i \in 1..Len(failed_matches) |->
                                      SummaryRecord(failed_matches[i])]
                   ELSE errors
    IN errors2 \o MapCat(CollectionRecords, out)

\* ---- SpecParse
\* Longest output handed to the parser, in lines.
MaxOutputLines == 2

TestPaths == {<<"tests", "/", "t.py">>, <<"tests", "\\", "t.py">>,
              <<"my", "-", "tests", "/", "t.py">>}
NodeIds == {<<"test_add">>, <<"TestCalc", "::", "test_add">>, <<"test_sub", "[1]">>}

OutputLines ==
    {[kind |-> "failed", path |-> p, node |-> n] : p \in TestPaths, n \in NodeIds}
    \cup {[kind |-> "header", name |-> "test_add", width |-> w] : w \in {3, 5}}
    \cup {[kind |-> "location", path |-> <<"tests", "\\", "t.py">>, line |-> 3],
          [kind |-> "collecting", path |-> <<"tests", "/", "t.py">>, line |-> 0],
          [kind |-> "text"]}

InitParse ==
    /\ arg \in SeqsUpTo(OutputLines, MaxOutputLines)
    /\ ret = <<>>
    /\ called = FALSE
    /\ ServerOff /\ PipeOff
    /\ ws = <<>> /\ fx_last = <<>> /\ fx_status = <<>> /\ fx_prev = <<>>
    /\ dd_in = <<>> /\ dd_out = <<>> /\ dd_done = FALSE
    /\ flake8 = "absent" /\ dt_pc = "off" /\ dt_fixes = <<>> /\ dt_again = <<>>

\* errors = parse_pytest_output(raw_output, repo_path)
Parse ==
    /\ ~called
    /\ ret' = ParsePytestOutput(arg)
    /\ called' = TRUE
    /\ UNCHANGED <<arg, current_run, req_pc, worker_pc, sseVars, fixerVars, dedupVars,
                   detectVars, pipeVars>>

SpecParse == InitParse /\ [][Parse]_vars

\* ------------------------------------------------------------------ pipeline.py: _discover_source_files_from_errors
\* A relative path is the sequence of its components ("src/calc.py" is
\* <<"src", "calc.py">>); the tests the code makes on the characters of a
\* name are tables over the names of the model.
StartsWithTest(name) == name \in {"tests", "testing", "test_calc.py", "test_util.py"}
StartsWithTestUnderscore(name) == name \in {"test_calc.py", "test_util.py"}
EndsWithPy(name) == name \in {"calc.py", "calc_test.py", "test_calc.py", "test_util.py", "core.py", "helpers.py", "lib.py"}
EndsWithUnderscoreTestPy(name) == name \in {"calc_test.py"}

SkippedDirs == {".git", "__pycache__", "node_modules", ".venv", "venv", ".pytest_cache", ".tox", "tests"}

\* The files a repository may hold, in the order sorted() gives their paths.
RepoPaths ==
    << <<"README.md">>, <<"src", "calc.py">>, <<"src", "calc_test.py">>,
       <<"src", "test_util.py">>, <<"src", "tests", "helpers.py">>,
       <<"testing", "core.py">>, <<"tests", "test_calc.py">>, <<"venv", "lib.py">> >>

PathSet == {RepoPaths[i] : i \in 1..Len(RepoPaths)}

\* sorted(files)
Sorted(files) == SelectSeq(RepoPaths, LAMBDA p : p \in files)

\* Mutant of ErrFileKept: a record's file is kept whatever its name.
ErrFileKept_Any(err_file) == err_file # <<>>

\* err_file and not err_file.startswith("test") and not "/test_" in err_file
ErrFileKept(err_file) ==
    /\ err_file # <<>>
    /\ ~StartsWithTest(Head(err_file))
    /\ \A i \in 2..Len(err_file) : ~StartsWithTestUnderscore(err_file[i])

\* 1. Extract files mentioned in test errors
FilesFromErrors(errors) ==
    {errors[i].file : i \in {j \in 1..Len(errors) : ErrFileKept(errors[j].file)}}

\* fname.endswith(".py") and not fname.startswith("test_") and not fname.endswith("_test.py")
IsSourceName(fname) ==
    EndsWithPy(fname) /\ ~StartsWithTestUnderscore(fname) /\ ~EndsWithUnderscoreTestPy(fname)

\* os.walk from the directory `root` of the repository `repo`, the skipped
\* directory names pruned at every level.
RECURSIVE WalkFrom(_, _)
WalkFrom(repo, root) ==
    LET below == {p \in repo : Len(p) > Len(root) /\ SubSeq(p, 1, Len(root)) = root}
        filenames == {p \in below : Len(p) = Len(root) + 1}
        dirs == {p[Len(root) + 1] : p \in {q \in below : Len(q) > Len(root) + 1}}
        kept == {d \in dirs : d \notin SkippedDirs}
    IN {p \in filenames : IsSourceName(p[Len(p)])}
           \cup UNION {WalkFrom(repo, Append(root, d)) : d \in kept}

DiscoverSourceFilesFromErrors(repo, errors) ==
    Sorted(FilesFromErrors(errors) \cup WalkFrom(repo, <<>>))

\* read_file_contents: the paths that exist get an entry (their text, or
\* the text of the read error), in the order of file_paths.
ReadFileContents(repo, file_paths) == SelectSeq(file_paths, LAMBDA fp : fp \in repo)

MaxErrors == 2

\* The files a failure record may name: none, a test file, source files
\* in walked and in skipped directories.
ErrFiles ==
    {<<>>, <<"tests", "test_calc.py">>, <<"src", "calc.py">>, <<"src", "test_util.py">>,
     <<"testing", "core.py">>, <<"venv", "lib.py">>}

InitDiscover ==
    /\ \E repo \in SUBSET PathSet, errors \in SeqsUpTo({[file |-> f] : f \in ErrFiles}, MaxErrors) :
           arg = [repo |-> repo, errors |-> errors]
    /\ ret = <<>>
    /\ called = FALSE
    /\ ServerOff /\ PipeOff
    /\ ws = <<>> /\ fx_last = <<>> /\ fx_status = <<>> /\ fx_prev = <<>>
    /\ dd_in = <<>> /\ dd_out = <<>> /\ dd_done = FALSE
    /\ flake8 = "absent" /\ dt_pc = "off" /\ dt_fixes = <<>> /\ dt_again = <<>>

\* files_needed = _discover_source_files_from_errors(repo_path, test_results["errors"])
\* file_contents = read_file_contents(repo_path, files_needed)
Discover ==
    /\ ~called
    /\ LET files_needed == DiscoverSourceFilesFromErrors(arg.repo, arg.errors)
       IN ret' = [files_needed |-> files_needed,
                  file_contents |-> ReadFileContents(arg.repo, files_needed)]
    /\ called' = TRUE
    /\ UNCHANGED <<arg, current_run, req_pc, worker_pc, sseVars, fixerVars, dedupVars,
                   detectVars, pipeVars>>

SpecDiscover == InitDiscover /\ [][Discover]_vars

\* ------------------------------------------------------------------ pipeline.py: run_pipeline
MAX_ITERATIONS == 5

\* Mutants of RangeHasNext: a range two passes longer, one pass shorter.
RangeHasNext_TwoMore(it) == it < MAX_ITERATIONS + 2
RangeHasNext_OneLess(it) == it < MAX_ITERATIONS - 1
\* for iteration in range(1, MAX_ITERATIONS + 1): whether a pass follows pass `it`.
RangeHasNext(it) == it < MAX_ITERATIONS

\* Mutant of AllPassed: the failure records are not looked at.
AllPassed_FailedOnly(t) == t.failed = 0
\* if test_results["failed"] == 0 and len(test_results["errors"]) == 0
AllPassed(t) == t.failed = 0 /\ Len(t.errors) = 0

\* Mutant of NoFixes: an empty list is handed on to apply_fixes.
NoFixes_Never(fixes) == FALSE
\* if not fix_response["fixes"]
NoFixes(fixes) == fixes = <<>>

\* Mutant of NoneApplied: the pass goes on to commit with nothing applied.
NoneApplied_Never(applied_count) == FALSE
\* if applied_count == 0
NoneApplied(applied_count) == applied_count = 0

\* Mutant of DetFound: the patches of the detector are never applied.
DetFound_Never(fixes) == FALSE
\* if det_result["fixes"]:
DetFound(fixes) == fixes # <<>>

\* The entries of the history: an external call, an emitted event.
Call(name) == <<"call", name, iteration>>
Emit(type) == <<"emit", type, iteration>>

\* Mutant of Except: the handler records the message and leaves the status.
Except_KeepsStatus(res, e) == [res EXCEPT !.error = e]
\* Mutant of Except: the report is started afresh when an exception is caught.
Except_Fresh(res, e) == [NewResult EXCEPT !.final_status = "ERROR", !.error = e]
\* except Exception as e: final_status = "ERROR", error = str(e)
Except(res, e) == [res EXCEPT !.final_status = "ERROR", !.error = e]

\* result["total_fixes_applied"] += applied_count; result["all_fixes"].extend(applied)
Extend(res, applied) ==
    [res EXCEPT !.total_fixes_applied = @ + AppliedCount(applied),
                !.all_fixes = @ \o applied]

\* Mutant of AppendIteration: the record is inserted at the front.
AppendIteration_Front(res, rec) == [res EXCEPT !.iterations = <<rec>> \o @]
\* result["iterations"].append(rec)
AppendIteration(res, rec) == [res EXCEPT !.iterations = Append(@, rec)]

\* What the steps of the pipeline leave alone in the rest of the model.
pipeFrame == <<fx_last, fx_status, fx_prev, dedupVars, dt_pc, dt_again, serverVars>>

\* ---- inputs of the pipeline
\* The repositories cloned: one with an unresolvable import, one without.
ClonedFiles ==
    {FileOf(<<<<"import", " ", "missing">>, <<"x = 1">>>>, <<LF>>, TRUE),
     FileOf(<<<<"x = 1">>>>, <<LF>>, TRUE)}

\* What run_tests can return: the counts and the failure records.
FailureRecord == [test_name |-> <<"test_a">>, file |-> A_PY, line |-> 1]
TestOutcomes == {[failed |-> f, errors |-> e] : f \in {0, 1}, e \in {<<>>, <<FailureRecord>>}}

\* Proposals of the fix provider: one that applies to any non-empty a.py, one
\* whose old_code is nowhere in the file, one for a file that does not exist,
\* one without "file", one without "line".
GoodFix == [file |-> A_PY, line |-> 1, old_code |-> <<>>, new_code |-> <<"y = 2">>]
StaleFix == [file |-> A_PY, line |-> 1, old_code |-> <<"z = 3">>, new_code |-> <<"y = 2">>]
LostFix == [file |-> MISSING_PY, line |-> 1, old_code |-> <<>>, new_code |-> <<"y = 2">>]
NoFileFix == [line |-> 1, old_code |-> <<>>, new_code |-> <<"y = 2">>]
NoLineFix == [file |-> A_PY, old_code |-> <<>>, new_code |-> <<"y = 2">>]
ProposalLists ==
    {<<>>, <<GoodFix>>, <<StaleFix>>, <<StaleFix, GoodFix>>, <<StaleFix, LostFix>>,
     <<NoFileFix>>, <<GoodFix, NoFileFix>>, <<NoLineFix>>}

\* ---- llm.py: the reply of the fix provider
\* Replies of the provider: text that is not JSON, a JSON object without
\* "fixes", and JSON objects with each of the proposal lists.
Replies ==
    {[json |-> FALSE], [json |-> TRUE, parsed |-> [commit_title |-> <<"title">>]]}
       \cup {[json |-> TRUE, parsed |-> [fixes |-> f]] : f \in ProposalLists}

\* _extract_json(text): the parsed object, or RuntimeError.
ExtractJson(reply) ==
    IF reply.json
    THEN [raised |-> FALSE, value |-> reply.parsed]
    ELSE [raised |-> TRUE,
          value |-> <<"RuntimeError", "Failed to parse LLM response as JSON">>]

\* ask_for_fixes: parsed = _extract_json(response_text);
\* fixes = parsed.get("fixes", []).  The proposals are passed on as parsed.
AskForFixesOf(reply) ==
    LET parsed == ExtractJson(reply)
    IN IF parsed.raised
       THEN parsed
       ELSE [raised |-> FALSE,
             value |-> IF "fixes" \in DOMAIN parsed.value
                       THEN parsed.value.fixes ELSE <<>>]

\* ---- test_runner.py: the dependency install of run_tests
\* Mutant of SkipDeps: the install is never skipped.
SkipDeps_Never(installed) == FALSE
\* run_tests(repo_path, test_command, skip_deps=deps_installed)
SkipDeps(installed) == installed
\* run_tests: `if not skip_deps:` pip install -r requirements.txt (when the
\* file exists)
MayInstall(skip_deps) == ~skip_deps

\* ---- git_ops.py: commit_and_push
\* What git can do when commit_and_push runs it.
GitBehaviours ==
    {"pushed", "push_rejected", "nothing_to_commit", "commit_failed", "push_timeout"}

\* commit_and_push(repo_path, commit_message, branch_name): the dictionary it
\* returns, or the exception it raises (subprocess.run(..., timeout=60)
\* raises TimeoutExpired, which nothing in the function catches).
CommitAndPushOf(g) ==
    IF g = "nothing_to_commit"
    THEN [raised |-> FALSE,
          value |-> [success |-> TRUE, commit_hash |-> <<>>, push_success |-> TRUE]]
    ELSE IF g = "commit_failed"
    THEN [raised |-> TRUE, value |-> <<"RuntimeError", "Failed to commit">>]
    ELSE IF g = "push_timeout"
    THEN [raised |-> TRUE, value |-> <<"TimeoutExpired", "git push">>]
    ELSE [raised |-> FALSE,
          value |-> [success |-> TRUE, commit_hash |-> <<"hash">>,
                     push_success |-> (g = "pushed")]]

\* ---- Spec: one external call per step
Init ==
    /\ pc = "clone"
    /\ iteration = 0
    /\ result = NewResult
    /\ deps_installed = FALSE
    /\ test_results = NoTestResults
    /\ fix_response = <<>>
    /\ iter_result = NewIterResult(0)
    /\ trace = <<>>
    /\ commit_result = NoCommitResult
    /\ git = "none"
    /\ skip_deps_log = <<>>
    /\ ws = <<>>
    /\ flake8 \in {"absent", "installed"}
    /\ dt_pc = "off" /\ dt_fixes = <<>> /\ dt_again = <<>>
    /\ fx_last = <<>> /\ fx_status = <<>> /\ fx_prev = <<>>
    /\ dd_in = <<>> /\ dd_out = <<>> /\ dd_done = FALSE
    /\ ServerOff /\ CallOff

\* repo_path = clone_repo(repo_url, WORKSPACE_DIR)
CloneRepo ==
    /\ pc = "clone"
    /\ \E c \in ClonedFiles : ws' = [p \in {A_PY} |-> c]
    /\ trace' = trace \o <<Call("clone_repo"), Emit("clone")>>
    /\ pc' = "analyze"
    /\ UNCHANGED <<iteration, result, deps_installed, test_results, fix_response,
                   iter_result, flake8, dt_fixes, pipeFrame, gitVars, skip_deps_log>>

\* analysis = analyze_repo(repo_path)
AnalyzeRepo ==
    /\ pc = "analyze"
    /\ trace' = trace \o <<Call("analyze_repo"), Emit("analysis")>>
    /\ pc' = "branch"
    /\ UNCHANGED <<iteration, result, deps_installed, test_results, fix_response,
                   iter_result, ws, flake8, dt_fixes, pipeFrame, gitVars, skip_deps_log>>

\* create_branch(repo_path, branch_name)
CreateBranch ==
    /\ pc = "branch"
    /\ trace' = trace \o <<Call("create_branch"), Emit("branch")>>
    /\ pc' = "deterministic"
    /\ UNCHANGED <<iteration, result, deps_installed, test_results, fix_response,
                   iter_result, ws, flake8, dt_fixes, pipeFrame, gitVars, skip_deps_log>>

\* det_result = detect_and_fix_deterministic(repo_path); if det_result["fixes"]:
DetectDeterministic ==
    /\ pc = "deterministic"
    /\ dt_fixes' = DetectAndFixDeterministic(ws, flake8)
    /\ trace' = Append(trace, Call("detect_and_fix_deterministic"))
    /\ pc' = (IF DetFound(dt_fixes') THEN "det_apply" ELSE "loop")
    /\ UNCHANGED <<iteration, result, deps_installed, test_results, fix_response,
                   iter_result, ws, flake8, pipeFrame, gitVars, skip_deps_log>>

\* applied = apply_fixes(repo_path, det_result["fixes"]); if applied_count > 0:
ApplyDeterministic ==
    /\ pc = "det_apply"
    /\ LET r == ApplyFixes(ws, dt_fixes)
           applied_count == AppliedCount(r.results)
       IN /\ ws' = r.ws
          /\ dt_fixes' = r.results
          /\ result' = Extend(result, r.results)
          /\ pc' = (IF applied_count > 0 THEN "det_commit" ELSE "loop")
    /\ trace' = trace \o <<Emit("fixes"), Call("apply_fixes"), Emit("fix_applied")>>
    /\ UNCHANGED <<iteration, deps_installed, test_results, fix_response, iter_result,
                   flake8, pipeFrame, gitVars, skip_deps_log>>

\* commit_result = commit_and_push(...); result["iterations"].append({"iteration": 0, ...})
CommitDeterministic ==
    /\ pc = "det_commit"
    /\ \E g \in GitBehaviours :
          LET o == CommitAndPushOf(g)
          IN /\ git' = g
             /\ IF o.raised
                THEN /\ result' = Except(result, o.value)
                     /\ trace' = trace \o <<Call("commit_and_push"), Emit("error")>>
                     /\ pc' = "summary"
                     /\ UNCHANGED commit_result
                ELSE /\ commit_result' = o.value
                     /\ trace' = trace \o <<Call("commit_and_push"), Emit("commit")>>
                     /\ result' = AppendIteration(result,
                                     [iteration |-> 0, status |-> "DETERMINISTIC_FIX",
                                      fixes_applied |-> dt_fixes])
                     /\ pc' = "loop"
    /\ UNCHANGED <<iteration, deps_installed, test_results, fix_response, iter_result,
                   ws, flake8, dt_fixes, pipeFrame, skip_deps_log>>

\* Mutant of RangeNext: a range of step two.
RangeNext_StepTwo(it) == it + 2
\* range(1, MAX_ITERATIONS + 1): the value after `it` (the first after 0)
RangeNext(it) == it + 1

\* for iteration in range(1, MAX_ITERATIONS + 1): the next pass begins.
NextIteration ==
    /\ pc = "loop"
    /\ RangeHasNext(iteration)
    /\ iteration' = RangeNext(iteration)
    /\ iter_result' = NewIterResult(iteration')
    /\ trace' = Append(trace, <<"emit", "iteration_start", iteration'>>)
    /\ pc' = "run_tests"
    /\ UNCHANGED <<result, deps_installed, test_results, fix_response, ws, flake8,
                   dt_fixes, pipeFrame, gitVars, skip_deps_log>>

\* test_results = run_tests(...); deps_installed = True; if all pass: ... break
RunTests ==
    /\ pc = "run_tests"
    /\ \E t \in TestOutcomes :
          /\ test_results' = t
          /\ IF AllPassed(t)
             THEN /\ iter_result' = [iter_result EXCEPT !.status = "PASSED"]
                  /\ result' = [AppendIteration(result, iter_result')
                                   EXCEPT !.final_status = "PASSED"]
                  /\ trace' = trace \o <<Call("run_tests"), Emit("test_result"),
                                         Emit("all_passed")>>
                  /\ pc' = "summary"
             ELSE /\ trace' = trace \o <<Call("run_tests"), Emit("test_result")>>
                  /\ pc' = "discover"
                  /\ UNCHANGED <<iter_result, result>>
    /\ skip_deps_log' = Append(skip_deps_log, SkipDeps(deps_installed))
    /\ deps_installed' = TRUE
    /\ UNCHANGED <<iteration, fix_response, ws, flake8, dt_fixes, pipeFrame, gitVars>>

\* files_needed = _discover_source_files_from_errors(...);
\* file_contents = read_file_contents(repo_path, files_needed)
DiscoverFiles ==
    /\ pc = "discover"
    /\ trace' = trace \o <<Call("_discover_source_files_from_errors"),
                           Emit("files_needed"), Call("read_file_contents"),
                           Emit("file_contents")>>
    /\ pc' = "ask"
    /\ UNCHANGED <<iteration, result, deps_installed, test_results, fix_response,
                   iter_result, ws, flake8, dt_fixes, pipeFrame, gitVars, skip_deps_log>>

\* fix_response = ask_for_fixes(...); if not fix_response["fixes"]: ... break
AskForFixes ==
    /\ pc = "ask"
    /\ \E reply \in Replies :
          LET o == AskForFixesOf(reply)
          IN IF o.raised
             THEN /\ result' = Except(result, o.value)
                  /\ trace' = trace \o <<Call("ask_for_fixes"), Emit("error")>>
                  /\ pc' = "summary"
                  /\ UNCHANGED <<fix_response, iter_result>>
             ELSE /\ fix_response' = o.value
                  /\ IF NoFixes(o.value)
                     THEN /\ iter_result' = [iter_result EXCEPT !.status = "NO_FIXES"]
                          /\ result' = [AppendIteration(result, iter_result')
                                           EXCEPT !.final_status = "FAILED"]
                          /\ trace' = trace \o <<Call("ask_for_fixes"), Emit("no_fixes")>>
                          /\ pc' = "summary"
                     ELSE /\ trace' = trace \o <<Call("ask_for_fixes"), Emit("fixes")>>
                          /\ pc' = "apply"
                          /\ UNCHANGED <<iter_result, result>>
    /\ UNCHANGED <<iteration, deps_installed, test_results, ws, flake8, dt_fixes,
                   pipeFrame, gitVars, skip_deps_log>>

\* applied = apply_fixes(repo_path, fix_response["fixes"]);
\* if applied_count == 0: ... break.  apply_fixes writes status and
\* status_message into the proposals themselves.
ApplyProposals ==
    /\ pc = "apply"
    /\ LET r == ApplyFixes(ws, fix_response)
           applied_count == AppliedCount(r.results)
       IN /\ ws' = r.ws
          /\ fix_response' =
                r.results \o SubSeq(fix_response, Len(r.results) + 1, Len(fix_response))
          /\ IF r.raised
             THEN /\ result' = Except(result, <<"KeyError", "file">>)
                  /\ trace' = trace \o <<Call("apply_fixes"), Emit("error")>>
                  /\ pc' = "summary"
                  /\ UNCHANGED iter_result
             ELSE IF NoneApplied(applied_count)
             THEN /\ iter_result' = [iter_result EXCEPT !.fixes_applied = r.results,
                                                        !.status = "NO_FIXES_APPLIED"]
                  /\ result' = [AppendIteration(Extend(result, r.results), iter_result')
                                   EXCEPT !.final_status = "FAILED"]
                  /\ trace' = trace \o <<Call("apply_fixes"), Emit("fix_applied"),
                                         Emit("no_fixes_applied")>>
                  /\ pc' = "summary"
             ELSE /\ iter_result' = [iter_result EXCEPT !.fixes_applied = r.results]
                  /\ result' = Extend(result, r.results)
                  /\ trace' = trace \o <<Call("apply_fixes"), Emit("fix_applied")>>
                  /\ pc' = "commit"
    /\ UNCHANGED <<iteration, deps_installed, test_results, flake8, dt_fixes, pipeFrame, gitVars, skip_deps_log>>

\* commit_result = commit_and_push(...); iter_result["status"] = "FIXED";
\* result["iterations"].append(iter_result)
CommitAndPush ==
    /\ pc = "commit"
    /\ \E g \in GitBehaviours :
          LET o == CommitAndPushOf(g)
          IN /\ git' = g
             /\ IF o.raised
                THEN /\ result' = Except(result, o.value)
                     /\ trace' = trace \o <<Call("commit_and_push"), Emit("error")>>
                     /\ pc' = "summary"
                     /\ UNCHANGED <<commit_result, iter_result>>
                ELSE /\ commit_result' = o.value
                     /\ iter_result' = [iter_result EXCEPT !.status = "FIXED"]
                     /\ result' = AppendIteration(result, iter_result')
                     /\ trace' = trace \o <<Call("commit_and_push"), Emit("commit"),
                                            Emit("iteration_complete")>>
                     /\ pc' = "loop"
    /\ UNCHANGED <<iteration, deps_installed, test_results, fix_response, ws, flake8,
                   dt_fixes, pipeFrame, skip_deps_log>>

\* The `else:` of the for loop: the range is exhausted without a break.
LoopExhausted ==
    /\ pc = "loop"
    /\ ~RangeHasNext(iteration)
    /\ IF result.final_status = "RUNNING"
       THEN /\ result' = [result EXCEPT !.final_status = "MAX_ITERATIONS"]
            /\ trace' = Append(trace, Emit("max_iterations"))
       ELSE UNCHANGED <<result, trace>>
    /\ pc' = "summary"
    /\ skip_deps_log' = IF pc = "run_tests"
                        THEN Append(skip_deps_log, SkipDeps(deps_installed))
                        ELSE skip_deps_log
    /\ UNCHANGED <<iteration, deps_installed, test_results, fix_response, iter_result,
                   ws, flake8, dt_fixes, pipeFrame, gitVars>>

\* The external call of each step that can raise.
RaisingCall ==
    [clone |-> "clone_repo", analyze |-> "analyze_repo", branch |-> "create_branch",
     deterministic |-> "detect_and_fix_deterministic",
     run_tests |-> "run_tests", ask |-> "ask_for_fixes"]

\* The external call of the step raises (a non-zero git exit, a timeout of
\* the test command, an unparsable answer of the provider, ...):
\* except Exception as e: final_status = "ERROR"; emit("error", ...)
Raises ==
    /\ pc \in DOMAIN RaisingCall
    /\ result' = Except(result, <<RaisingCall[pc]>>)
    /\ trace' = trace \o <<Call(RaisingCall[pc]), Emit("error")>>
    /\ pc' = "summary"
    /\ skip_deps_log' = IF pc = "run_tests"
                        THEN Append(skip_deps_log, SkipDeps(deps_installed))
                        ELSE skip_deps_log
    /\ UNCHANGED <<iteration, deps_installed, test_results, fix_response, iter_result,
                   ws, flake8, dt_fixes, pipeFrame, gitVars>>

\* emit("done", ...); return result
Finish ==
    /\ pc = "summary"
    /\ trace' = Append(trace, Emit("done"))
    /\ pc' = "returned"
    /\ UNCHANGED <<iteration, result, deps_installed, test_results, fix_response,
                   iter_result, ws, flake8, dt_fixes, pipeFrame, gitVars, skip_deps_log>>

Next ==
    \/ CloneRepo
    \/ AnalyzeRepo
    \/ CreateBranch
    \/ DetectDeterministic
    \/ ApplyDeterministic
    \/ CommitDeterministic
    \/ NextIteration
    \/ RunTests
    \/ DiscoverFiles
    \/ AskForFixes
    \/ ApplyProposals
    \/ CommitAndPush
    \/ LoopExhausted
    \/ Raises
    \/ Finish

Spec == Init /\ [][Next]_vars

\* The steps that wait for an external collaborator (a git command, the test
\* command, the provider, the event channel).
Waits ==
    \/ CloneRepo
    \/ AnalyzeRepo
    \/ CreateBranch
    \/ CommitDeterministic
    \/ NextIteration
    \/ RunTests
    \/ DiscoverFiles
    \/ AskForFixes
    \/ CommitAndPush
    \/ LoopExhausted
    \/ Raises
    \/ Finish

\* The steps that run the detector or the patch engine: each is enabled
\* exactly at its own pc and leaves it.
Computes ==
    /\ pc \in {"deterministic", "det_apply", "apply"}
    /\ pc' \in {"det_apply", "det_commit", "loop", "commit", "summary"}

\* Every external call returns or raises and every computation ends, so the
\* run does not stay at a step for ever.
SpecLive == Spec /\ WF_vars(Waits) /\ WF_pc(Computes)

\* ------------------------------------------------------------------ claims: pipeline
\* The external calls of a history, in order.
CallsOf(tr) == SelectSeq(tr, LAMBDA e : e[1] = "call")
\* The number of test runs made so far.
TestRuns == Len(SelectSeq(trace, LAMBDA e : e[1] = "call" /\ e[2] = "run_tests"))
\* The names of the external calls made in pass k of the loop, in order.
CallsInPass(k) ==
    LET cs == SelectSeq(trace, LAMBDA e : e[1] = "call" /\ e[3] = k)
    IN [i \in 1..Len(cs) |-> cs[i][2]]
\* The record appended last.
LastRecord == result.iterations[Len(result.iterations)]
\* The run has left the loop: what remains is the summary and the return.
Left == pc \in {"summary", "returned"}
\* Once the run has left the loop it makes no external call, starts no pass
\* and changes neither the report nor the workspace.
Stopped ==
    Left => /\ CallsOf(trace') = CallsOf(trace)
            /\ iteration' = iteration
            /\ result' = result
            /\ ws' = ws
            /\ pc' \in {"summary", "returned"}

AskReturnedEmpty ==
    /\ pc = "ask"
    /\ pc' # "ask"
    /\ result'.final_status # "ERROR"
    /\ fix_response' = <<>>

RunTestsReturned ==
    /\ pc = "run_tests"
    /\ pc' # "run_tests"
    /\ result'.final_status # "ERROR"

\* C8: a pass ends the run with final_status PASSED if and only if its test
\* run reports failed = 0 and no failure record; then the pass makes no call
\* but the test run (no file discovery, provider request, patch application or
\* commit), its record is appended with status PASSED, and no later pass
\* starts.
C8_PassedIff ==
    /\ [][RunTestsReturned =>
            LET clean == test_results'.failed = 0 /\ test_results'.errors = <<>>
            IN /\ (result'.final_status = "PASSED") <=> clean
               /\ clean => /\ pc' = "summary"
                           /\ result'.iterations =
                                 Append(result.iterations,
                                        [iteration |-> iteration, status |-> "PASSED",
                                         fixes_applied |-> <<>>])
               /\ ~clean => pc' = "discover" /\ result' = result]_vars
    /\ [][result'.final_status = "PASSED" /\ result.final_status # "PASSED"
            => RunTestsReturned]_vars
    /\ [](result.final_status = "PASSED"
            => Left /\ CallsInPass(iteration) = <<"run_tests">>)
    /\ [][Stopped]_vars

\* The tests passed in the second pass, after a pass that applied and
\* committed a patch; the run has returned.
C8_Witness ==
    /\ pc = "returned"
    /\ result.final_status = "PASSED"
    /\ iteration = 2
    /\ LastRecord = [iteration |-> 2, status |-> "PASSED", fixes_applied |-> <<>>]

\* apply_fixes has returned in this step with no patch of status applied
\* (the provider's list was not empty: the step is not reached otherwise).
ApplyReturnedNone ==
    /\ pc = "apply"
    /\ pc' # "apply"
    /\ fix_response # <<>>
    /\ result'.final_status # "ERROR"
    /\ \A i \in 1..Len(iter_result'.fixes_applied) :
          iter_result'.fixes_applied[i].status # "applied"

LoopRecords == SelectSeq(result.iterations, LAMBDA rec : rec.iteration >= 1)

\* C10: final_status is MAX_ITERATIONS exactly when the run has left the loop
\* after MAX_ITERATIONS passes that each ended FIXED (none PASSED, NO_FIXES,
\* NO_FIXES_APPLIED, none raised); it is never MAX_ITERATIONS after fewer passes.
C10_MaxIterationsIff ==
    LET exhausted ==
            /\ Left
            /\ Len(LoopRecords) = MAX_ITERATIONS
            /\ \A i \in 1..Len(LoopRecords) : LoopRecords[i].status = "FIXED"
            /\ result.error = <<>>
    IN /\ (result.final_status = "MAX_ITERATIONS") <=> exhausted
       /\ result.final_status = "MAX_ITERATIONS" => iteration = MAX_ITERATIONS

\* Five passes applied and committed patches after a deterministic pass that
\* did so too; the run has returned with MAX_ITERATIONS.
C10_Witness ==
    /\ pc = "returned"
    /\ result.final_status = "MAX_ITERATIONS"
    /\ Len(result.iterations) = MAX_ITERATIONS + 1
    /\ result.iterations[1].status = "DETERMINISTIC_FIX"

\* ------------------------------------------------------------------ claims: order of the passes
\* The positions of the history at which `name` was called in pass k.
CallsAt(name, k) == {i \in DOMAIN trace : trace[i] = <<"call", name, k>>}
\* The positions of the calls made inside the loop (pass 1 and later).
LoopCalls == {i \in DOMAIN trace : trace[i][1] = "call" /\ trace[i][3] >= 1}

\* C11: in a run that gets past branching the detector is called exactly once,
\* never skipped; its call, the application of its patches when it found any
\* and their commit when any was applied all come before the first test run
\* and the first request to the provider.
C11_DeterministicFirst ==
    LET detect == CallsAt("detect_and_fix_deterministic", 0)
        apply0 == CallsAt("apply_fixes", 0)
        commit0 == CallsAt("commit_and_push", 0)
        anyApplied == \E i \in DOMAIN dt_fixes : dt_fixes[i].status = "applied"
    IN /\ Cardinality(detect) <= 1
       /\ pc \in {"det_apply", "det_commit", "loop", "run_tests", "discover", "ask",
                  "apply", "commit"} => Cardinality(detect) = 1
       /\ LoopCalls # {} =>
             /\ Cardinality(detect) = 1
             /\ dt_fixes # <<>> => Cardinality(apply0) = 1
             /\ anyApplied => /\ Cardinality(commit0) = 1
                              /\ result.iterations # <<>>
                              /\ result.iterations[1].status = "DETERMINISTIC_FIX"
             /\ \A i \in detect \cup apply0 \cup commit0 : \A j \in LoopCalls : i < j

\* The detector found a patch, it was applied and committed as pass 0, and
\* the loop then ran tests and asked the provider.
C11_Witness ==
    /\ CallsAt("ask_for_fixes", 1) # {}
    /\ CallsAt("run_tests", 1) # {}
    /\ CallsAt("commit_and_push", 0) # {}
    /\ dt_fixes # <<>>

\* ------------------------------------------------------------------ claims: exceptions
\* The step leaves the sequence of the try block: by a break, by the end of
\* the loop or by an exception.
LeavesTry == pc # "summary" /\ pc' = "summary"

\* C12: a step that raises (clone, analysis, branch, detector, test run,
\* provider request, patch application, commit) ends the run with final_status
\* ERROR and the exception text; the iteration records and the patch count of
\* the report are those accumulated before the exception; the run then emits
\* `done` and returns the report.
C12_ErrorKeepsReport ==
    /\ [][LeavesTry =>
            /\ result'.final_status \in {"PASSED", "FAILED", "MAX_ITERATIONS", "ERROR"}
            /\ (result'.final_status = "ERROR") <=> (result'.error # <<>>)
            /\ (result'.final_status = "ERROR") <=>
                  (trace'[Len(trace')] = <<"emit", "error", iteration>>)
            /\ result'.final_status = "ERROR" =>
                  /\ result'.iterations = result.iterations
                  /\ result'.total_fixes_applied = result.total_fixes_applied
                  /\ trace'[Len(trace') - 1][1] = "call"
                  /\ result'.error \in {<<trace'[Len(trace') - 1][2]>>,
                                       <<"KeyError", "file">>,
                                       <<"RuntimeError", "Failed to commit">>,
                                       <<"RuntimeError", "Failed to parse LLM response as JSON">>,
                                       <<"TimeoutExpired", "git push">>}]_vars
    /\ [][Stopped]_vars
    /\ [](pc = "returned" => trace[Len(trace)] = <<"emit", "done", iteration>>)
    /\ [](result.final_status = "ERROR" => Left)

\* apply_fixes raised in the third pass, after a deterministic pass and two
\* passes that applied patches; the report returned holds their three records.
C12_Witness ==
    /\ pc = "returned"
    /\ result.final_status = "ERROR"
    /\ result.error = <<"KeyError", "file">>
    /\ iteration = 3
    /\ Len(result.iterations) = 3
    /\ result.total_fixes_applied >= 3

\* ------------------------------------------------------------------ claims: PipelineState
\* The requests answered 202 whose run has not finished.
AcceptedUnfinished ==
    {r \in Requests : req_pc[r] = "202" /\ worker_pc[r] \in {"started", "run_pipeline"}}

\* C13: from the answer "accepted" to a start request until that run
\* finishes, a status query (a read of current_run under run_lock) observes
\* status running: never idle, never the done/error and result of an earlier run.
C13_RunningOnceAccepted ==
    AcceptedUnfinished # {} => current_run.status = "running"

\* C14: for each accepted run the status leaves running exactly once, to done
\* or to error: the step in which a run finishes takes the status from running
\* to done or error.
C14_LeavesRunningOnce ==
    [][\A r \in Requests :
          worker_pc[r] = "run_pipeline" /\ worker_pc'[r] = "finished"
             => /\ current_run.status = "running"
                /\ current_run'.status \in {"done", "error"}]_vars

\* ------------------------------------------------------------------ claims: isolation of failures
\* The patch without the two fields apply_fixes adds.
AsGiven(fix) == [k \in DOMAIN fix \ {"status", "status_message"} |-> fix[k]]

\* C15: apply_fixes appends every patch it visits to its results, in order,
\* with status applied or failed; a patch that fails (file missing, line out of
\* range, old_code mismatch) leaves every file unchanged, and the patches after
\* it are visited all the same.
C15_FailuresIsolated ==
    /\ [][fx_status' # fx_status =>
            /\ Len(fx_status') = Len(fx_status) + 1
            /\ SubSeq(fx_status', 1, Len(fx_status)) = fx_status
            /\ Len(fx_last') = 1
            /\ AsGiven(fx_last'[1]) \in PatchSet
            /\ fx_last'[1].status \in {"applied", "failed"}
            /\ fx_status'[Len(fx_status')] = fx_last'[1].status
            /\ fx_last'[1].status = "failed" => ws' = ws]_vars
    /\ [](\A i \in DOMAIN fx_status : fx_status[i] \in {"applied", "failed"})

\* A patch failed and the patch after it was applied.
C15_Witness ==
    /\ fx_status = <<"failed", "applied">>
    /\ ws # fx_prev

\* ------------------------------------------------------------------ claims: line terminators
\* The terminator characters of a file, in order.
TerminatorsOf(content) == SelectSeq(content, LAMBDA c : c \in {CR, LF})

\* C16: when apply_fixes replaces a line (non-empty new_code), the file keeps
\* its line terminators: LF stays LF, CRLF stays CRLF, none is added and none
\* is removed, on the replaced line and on every other line.
C16_KeepsTerminators ==
    (/\ fx_last # <<>>
     /\ LastFix.status = "applied"
     /\ LastFix.new_code # <<>>)
        => TerminatorsOf(ws[FsPath(LastFix.file)])
              = TerminatorsOf(fx_prev[FsPath(LastFix.file)])

\* C17: whenever a commit step meets a failing push (rejected, or not finished
\* within its time budget), commit_and_push returns an outcome whose
\* push_success is false and the run goes on with the next step, not to Error.
PushFails == {"push_rejected", "push_timeout"}

PushFailed == pc \in {"commit", "det_commit"} /\ pc' # pc /\ git' \in PushFails

C17_PushFailureContinues ==
    [][PushFailed => /\ result'.final_status # "ERROR"
                     /\ commit_result'.push_success = FALSE
                     /\ pc' = "loop"]_vars

\* The last reply of the provider was malformed: it could not be parsed, or
\* one of its proposals lacks "file" or "line".
MalformedReply ==
    \/ result.error = <<"RuntimeError", "Failed to parse LLM response as JSON">>
    \/ \E i \in DOMAIN fix_response : ~({"file", "line"} \subseteq DOMAIN fix_response[i])

\* C18: a run that received a malformed reply of the fix provider ends without
\* Error, and the last pass is recorded as NO_FIXES, as for an empty reply.
C18_MalformedEndsNoFixes ==
    Left /\ MalformedReply =>
        /\ result.final_status # "ERROR"
        /\ result.iterations # <<>>
        /\ LastRecord.status = "NO_FIXES"

\* The place of a stream's queue in sse_clients (0 when it is not there).
Pos(l) ==
    IF \E k \in DOMAIN sse_clients : sse_clients[k] = l
    THEN CHOOSE k \in DOMAIN sse_clients : sse_clients[k] = l
    ELSE 0

\* A broadcast is under way and its loop has not yet come to the stream.
Pending(l) ==
    \E b \in Runs : broadcasting[b].pc = "looping" /\ Pos(l) >= broadcasting[b].i

\* The events broadcast while the stream was subscribed (up to the one the
\* loop under way has yet to hand it).
BroadcastWhileSubscribed(l) ==
    SubSeq(published, subscribed_at[l] + 1,
           IF unsubscribed_at[l] >= 0 THEN unsubscribed_at[l]
           ELSE IF Pending(l) THEN Len(published) - 1
           ELSE Len(published))

\* C19: the events put into the queue of a stream are exactly the events
\* broadcast between its subscription and its unsubscription, each once and
\* in the order of the broadcasts; a stream that never subscribed gets none;
\* what is in the queue is the part of them not yet read.
C19_Delivery ==
    \A l \in Listeners :
        /\ enqueued[l] = IF subscribed_at[l] >= 0 THEN BroadcastWhileSubscribed(l)
                         ELSE <<>>
        /\ Len(queue[l]) <= Len(enqueued[l])
        /\ queue[l] = SubSeq(enqueued[l], Len(enqueued[l]) - Len(queue[l]) + 1,
                             Len(enqueued[l]))
        /\ (Pos(l) > 0) <=> (subscribed_at[l] >= 0 /\ unsubscribed_at[l] < 0)

\* One stream subscribed before the first broadcast and left after it, one
\* subscribed after the first broadcast; a second event has been broadcast.
C19_Witness ==
    /\ Len(published) = 2
    /\ \A b \in Runs : broadcasting[b].pc = "idle"
    /\ \E l1, l2 \in Listeners :
          /\ subscribed_at[l1] = 0 /\ unsubscribed_at[l1] = 1
          /\ enqueued[l1] = <<published[1]>>
          /\ subscribed_at[l2] = 1 /\ unsubscribed_at[l2] < 0
          /\ enqueued[l2] = <<published[2]>>

\* A step of a stream: it subscribes, reads its queue, unsubscribes.
StreamStep == stream_pc' # stream_pc \/ \E l \in Listeners : Len(queue'[l]) < Len(queue[l])

\* C20: every call of broadcast_event returns, whatever the streams do or
\* fail to do (none of them is assumed to read its queue or to unsubscribe);
\* no step of a stream changes the state of a broadcasting thread or the
\* events broadcast; and the events of each thread are broadcast in the
\* order it emits them, as without any stream.
C20_NeverBlocks ==
    /\ \A b \in Runs : (broadcasting[b].pc # "idle") ~> (broadcasting[b].pc = "idle")
    /\ [][StreamStep => broadcasting' = broadcasting /\ published' = published]_vars
    /\ [](\A b \in Runs :
            SelectSeq(published, LAMBDA e : e[1] = b)
               = [k \in 1..(broadcasting[b].n
                              - (IF broadcasting[b].pc = "waiting" THEN 1 ELSE 0))
                    |-> <<b, k>>])

\* All events have been broadcast and the calls have returned, while one
\* stream has read nothing and another has left with events unread.
C20_Witness ==
    /\ Len(published) = MaxEvents
    /\ \A b \in Runs : broadcasting[b].pc = "idle"
    /\ \E l1, l2 \in Listeners :
          /\ stream_pc[l1] = "listening" /\ Len(queue[l1]) = MaxEvents
          /\ stream_pc[l2] = "gone" /\ queue[l2] # <<>>

\* C21: the first call of run_tests in a run is made with skip_deps false and
\* every later call with skip_deps true, so that at most one call of the run
\* can install the dependencies.
C21_InstallOnce ==
    /\ Len(skip_deps_log) = TestRuns
    /\ \A i \in DOMAIN skip_deps_log : skip_deps_log[i] <=> (i > 1)
    /\ Cardinality({i \in DOMAIN skip_deps_log : MayInstall(skip_deps_log[i])}) <= 1

\* The third test run of a run has been made.
C21_Witness ==
    /\ Len(skip_deps_log) = 3
    /\ iteration = 3
    /\ pc = "discover"

\* The indices of the records of the report, in order.
RecordIndices == [k \in DOMAIN result.iterations |-> result.iterations[k].iteration]

\* A step leaves the records there are as they are and adds at most one, at
\* the end.
AppendOnly ==
    /\ Len(result'.iterations) \in {Len(result.iterations), Len(result.iterations) + 1}
    /\ SubSeq(result'.iterations, 1, Len(result.iterations)) = result.iterations

\* C22: the list of records is append-only and, once a run that got past the
\* deterministic pass has returned, it holds the record of index 0 and one
\* record for each pass entered: indices 0, 1, ..., iteration.
C22_OneRecordPerPassAndZero ==
    /\ [][AppendOnly]_vars
    /\ [](pc = "returned" /\ iteration >= 1
            => RecordIndices = [k \in 1..(iteration + 1) |-> k - 1])

\* The lines of a file as the detector numbers them (terminators removed).
TextLines(content) ==
    LET all == SplitLines(ReadText(content))
    IN IF all[Len(all)] = <<>> THEN SubSeq(all, 1, Len(all) - 1) ELSE all

\* The parser reports a line of file p that opens a block and lacks its ':'.
ScenarioA(w, p) ==
    LET e == AstParse(ReadText(w[p]))
    IN /\ ~e.ok
       /\ e.lineno \in 1..Len(TextLines(w[p]))
       /\ MatchesColonKeywords(TextLines(w[p])[e.lineno])
       /\ LacksColon(TextLines(w[p])[e.lineno])

\* The SYNTAX patches the detector returned for file p.
SyntaxPatchesFor(p) ==
    SelectSeq(dt_fixes, LAMBDA f : f.bug_type = "SYNTAX" /\ FsPath(f.file) = p)

\* C23 (scenario A): when the line the parser reports opens a block and lacks
\* its ':', the detector returns exactly one SYNTAX patch for the file, at the
\* reported line, whose old_code is the line (without trailing blanks) and
\* whose new_code is old_code with ':' appended; when it is the only patch
\* of the pass, apply_fixes applies it, the line then ends with ':' and no
\* other line of the file has changed.
C23_AppendsColon ==
    dt_pc = "applied" =>
        \A p \in DOMAIN fx_prev :
            ScenarioA(fx_prev, p) =>
                LET before == TextLines(fx_prev[p])
                    n == AstParse(ReadText(fx_prev[p])).lineno
                    syn == SyntaxPatchesFor(p)
                IN /\ Len(syn) = 1
                   /\ syn[1].line = n
                   /\ syn[1].old_code = RStrip(before[n])
                   /\ syn[1].new_code = RStrip(before[n]) \o <<":">>
                   /\ Len(dt_fixes) = 1 =>
                         /\ syn[1].status = "applied"
                         /\ TextLines(ws[p]) =
                               [before EXCEPT ![n] = RStrip(before[n]) \o <<":">>]
                         /\ EndsWith(TextLines(ws[p])[n], <<":">>)

\* The second line of a two-line file was reported, with blanks after the
\* opener; the patch was the only one and has been applied.
C23_Witness ==
    /\ dt_pc = "applied"
    /\ ScenarioA(fx_prev, A_PY)
    /\ AstParse(ReadText(fx_prev[A_PY])).lineno = 2
    /\ TextLines(fx_prev[A_PY])[2] = <<"if x", " ">>
    /\ Len(dt_fixes) = 1
    /\ dt_fixes[1].status = "applied"

\* The records of a parse that were made from summary lines.
Synthesised ==
    SelectSeq(ret, LAMBDA r : r.error_message # <<>> /\ Head(r.error_message) = "Test ")

\* C24 (scenario C): when the output holds no delimited failure block, the
\* parser returns one record for each line `FAILED path::test_name`, in
\* order, with that test name, that path with forward slashes, line 0 and
\* the message `Test <test_name> failed`; when a delimited failure block was
\* found, no record is made from the summary lines.
C24_SummaryRecords ==
    called =>
        LET summary == SelectSeq(arg, LAMBDA l : l.kind = "failed")
        IN IF ErrorBlocks(arg) = <<>>
           THEN Synthesised =
                  [i \in 1..Len(summary) |->
                      [test_name |-> summary[i].node,
                       file |-> ReplaceBackslash(summary[i].path),
                       line |-> 0,
                       error_message |-> <<"Test ">> \o summary[i].node \o <<" failed">>]]
           ELSE Synthesised = <<>>


\* The files of the call's failure records, those a repository walk that
\* leaves the skipped directories aside finds, and the files handed on.
RecordFiles == {arg.errors[i].file : i \in 1..Len(arg.errors)} \ {<<>>}
WalkedSources ==
    {p \in arg.repo : /\ IsSourceName(p[Len(p)])
                      /\ \A i \in 1..(Len(p) - 1) : p[i] \notin SkippedDirs}
Handed == {ret.file_contents[i] : i \in 1..Len(ret.file_contents)}
NoDuplicates == \A i, j \in 1..Len(ret.file_contents) : ret.file_contents[i] = ret.file_contents[j] => i = j

\* C25 as stated: the files handed to the fix provider are every file named in
\* a failure record together with every non-test source file of the walk,
\* none missing and none twice.
C25_UnionOfRecordsAndWalk ==
    called => Handed = RecordFiles \cup WalkedSources /\ NoDuplicates

\* C25, amended: of the files named in failure records only those are handed
\* on whose path neither starts with "test" nor holds "/test_" and which
\* exist in the repository; with the walked source files they make up the
\* whole set, none missing and none twice.
C25_UnionOfSourceRecordsAndWalk ==
    called =>
        /\ Handed = {f \in RecordFiles : /\ f \in arg.repo
                                         /\ ~StartsWithTest(f[1])
                                         /\ \A i \in 2..Len(f) : ~StartsWithTestUnderscore(f[i])}
                        \cup WalkedSources
        /\ NoDuplicates

C25_Witness ==
    /\ called
    /\ <<"venv", "lib.py">> \in Handed
    /\ <<"src", "calc.py">> \in Handed
    /\ <<"tests", "test_calc.py">> \in (RecordFiles \cap arg.repo) \ Handed

\* C26: a source file that is not text makes no scan raise; the detector
\* returns the patches of the other files.
C26_ScansSkipUndecodable ==
    (\E p \in DOMAIN ws : ~Decodes(ws[p])) => dt_pc # "raised"

\* The names of the calls made in pass i, in the order they were made.
CallNames(i) ==
    LET cs == SelectSeq(trace, LAMBDA e : e[1] = "call" /\ e[3] = i)
    IN [k \in 1..Len(cs) |-> cs[k][2]]
IsPrefixOf(a, b) == Len(a) <= Len(b) /\ a = SubSeq(b, 1, Len(a))
SetupSteps == <<"clone_repo", "analyze_repo", "create_branch", "detect_and_fix_deterministic">>
DeterministicSteps == SetupSteps \o <<"apply_fixes", "commit_and_push">>
IterationSteps ==
    <<"run_tests", "_discover_source_files_from_errors", "read_file_contents",
      "ask_for_fixes", "apply_fixes", "commit_and_push">>
\* The indices with which the passes of the loop began.
Started ==
    LET st == SelectSeq(trace, LAMBDA e : e[1] = "emit" /\ e[2] = "iteration_start")
    IN [k \in 1..Len(st) |-> st[k][3]]

\* C27: while no step has raised, the calls made so far are clone, analysis,
\* branch and the deterministic pass in this order, then the passes 1, 2, ...
\* with consecutive indices; the calls of a pass are run tests, discover
\* files, request fixes, apply patches, commit in this order, a pass that is
\* not the last has made all of them (it has committed), and the run ends
\* with all of the first four steps made and a terminal status.
C27_StepOrder ==
    result.final_status # "ERROR" =>
        /\ IsPrefixOf(CallNames(0), DeterministicSteps)
        /\ \A k \in 1..(Len(trace) - 1) : trace[k][3] <= trace[k + 1][3]
        /\ Started = [k \in 1..iteration |-> k]
        /\ iteration >= 1 => IsPrefixOf(SetupSteps, CallNames(0))
        /\ \A i \in 1..iteration :
              /\ IsPrefixOf(CallNames(i), IterationSteps)
              /\ i < iteration => CallNames(i) = IterationSteps
        /\ pc \in {"summary", "returned"} =>
              /\ IsPrefixOf(SetupSteps, CallNames(0))
              /\ result.final_status \in {"PASSED", "FAILED", "MAX_ITERATIONS"}

\* A run with a committed deterministic pass and two committed passes that
\* ended PASSED in the third.
C27_Witness ==
    /\ pc = "returned"
    /\ result.final_status = "PASSED"
    /\ iteration = 3
    /\ CallNames(0) = DeterministicSteps
    /\ CallNames(2) = IterationSteps

\* The patch visited last names a line of its file whose trimmed content
\* differs from the trimmed old_code.
Differs ==
    /\ fx_last # <<>>
    /\ Exists(fx_prev, LastFix.file)
    /\ LastFix.line \in 1..Len(LinesBefore)
    /\ Strip(LastFix.old_code) # Trimmed(LinesBefore, LastFix.line)
\* The lines that match the trimmed old_code, and the first of them.
Matching == {k \in 1..Len(LinesBefore) : Strip(LastFix.old_code) = Trimmed(LinesBefore, k)}
FirstMatching == CHOOSE k \in Matching : \A j \in Matching : k <= j
\* The file after the edit of the patch at line k and nowhere else.
EditedAt(k) ==
    IF LastFix.new_code = <<>> THEN Without(LinesBefore, k)
    ELSE [LinesBefore EXCEPT ![k] = LastFix.new_code \o <<LF>>]
\* The patch was retargeted to the first matching line and the edit made
\* there alone, or no line matched and the patch is Failed with a message
\* that names the expected and the actual content.
Relocated ==
    IF Matching # {}
    THEN LastFix.status = "applied" /\ LinesAfter = EditedAt(FirstMatching)
    ELSE /\ LastFix.status = "failed"
         /\ LastFix.status_message =
                <<"Expected", Strip(LastFix.old_code), LastFix.line,
                  RStripNewline(LinesBefore[LastFix.line])>>
         /\ ws = fx_prev

\* C28 as stated (relocation): whenever the trimmed old_code differs from the
\* trimmed line at the index, the patch is relocated to the first matching
\* line or marked Failed.
C28_RelocatesOnAnyMismatch == Differs => Relocated

\* C28, amended (relocation): the scan is made when the trimmed old_code is
\* not empty and differs from the trimmed line at the index; a patch whose
\* trimmed old_code is empty is applied at its own index without a scan.
C28_RelocatesNonEmpty ==
    Differs =>
        IF Strip(LastFix.old_code) # <<>> THEN Relocated
        ELSE LastFix.status = "applied" /\ LinesAfter = EditedAt(LastFix.line)

\* A patch relocated to the first of two matching lines, away from its index.
C28_Witness ==
    /\ Differs
    /\ Strip(LastFix.old_code) # <<>>
    /\ Cardinality(Matching) = 2
    /\ LastFix.status = "applied"
    /\ LinesAfter = EditedAt(FirstMatching)

\* The parse failure of file p as the detector saw it, and whether the line
\* it reports qualifies for the colon itself.
ParseFailure(p) == AstParse(ReadText(fx_prev[p]))
ReportedLineQualifies(p) ==
    LET lines == SplitLines(ReadText(fx_prev[p]))
        n == ParseFailure(p).lineno
    IN n \in 1..Len(lines) /\ MatchesColonKeywords(lines[n]) /\ LacksColon(lines[n])

\* C29: for a parse failure whose reported line does not qualify and whose
\* error is not of the "expected ':'" class, the detector proposes no syntax
\* patch for the file.
C29_NoPatchForOtherClasses ==
    dt_pc \in {"detected", "applied"} =>
        \A p \in DOMAIN fx_prev :
            (/\ ~ParseFailure(p).ok
             /\ ~ReportedLineQualifies(p)
             /\ ParseFailure(p).msg # "expected ':'")
            => SyntaxPatchesFor(p) = <<>>

\* The number of blanks a line begins with, and the line without them and
\* without its terminator.
LeadingBlanks(l) ==
    CHOOSE n \in 0..Len(l) : /\ \A i \in 1..n : l[i] = " "
                             /\ n < Len(l) => l[n + 1] # " "
Body(l) == SubSeq(l, LeadingBlanks(l) + 1, Len(l) - 1)
\* The lines before the reported one that the scan can stop at: neither
\* blank nor a comment, and ending with ':' or indented by a multiple of 4.
Anchors ==
    {i \in 1..arg.idx :
        /\ Body(arg.lines[i]) # <<>>
        /\ Head(Body(arg.lines[i])) # "#"
        /\ \/ Body(arg.lines[i])[Len(Body(arg.lines[i]))] = ":"
           \/ LeadingBlanks(arg.lines[i]) % 4 = 0}
NearestAnchor == CHOOSE i \in Anchors : \A j \in Anchors : j <= i
ExpectedWidth ==
    IF Anchors = {} THEN 0
    ELSE LeadingBlanks(arg.lines[NearestAnchor])
            + (IF Body(arg.lines[NearestAnchor])[Len(Body(arg.lines[NearestAnchor]))] = ":"
               THEN 4 ELSE 0)
Recomputed == [i \in 1..ExpectedWidth |-> " "] \o Body(arg.lines[arg.idx + 1])
Current == SubSeq(arg.lines[arg.idx + 1], 1, Len(arg.lines[arg.idx + 1]) - 1)

C31_WholeUnits ==
    called => Len(ret.correct_indent) % 4 = 0

\* The patch of the batch recorded for line k of file p, as a set (the
\* batch is deduplicated: at most one).
BatchPatchesAt(p, k) ==
    {i \in 1..Len(dt_fixes) : FsPath(dt_fixes[i].file) = p /\ dt_fixes[i].line = k}
\* The lines of file p as they were before the batch, every line with a
\* patch recorded for it replaced or removed, every other line kept.
RECURSIVE BatchEditedFrom(_, _, _)
BatchEditedFrom(p, lines, k) ==
    IF k > Len(lines) THEN <<>>
    ELSE LET at == BatchPatchesAt(p, k)
             here == IF at = {} THEN <<lines[k]>>
                     ELSE LET f == dt_fixes[CHOOSE i \in at : TRUE]
                          IN IF f.new_code = <<>> THEN <<>> ELSE <<f.new_code \o <<LF>>>>
         IN here \o BatchEditedFrom(p, lines, k + 1)

\* C32: after the batch of the detector has been applied, every patch of it
\* is Applied and the file is its content before the batch with exactly the
\* recorded lines replaced or removed.
C32_BatchKeepsLines ==
    (dt_pc = "applied" /\ dt_fixes # <<>>) =>
        /\ \A i \in 1..Len(dt_fixes) : dt_fixes[i].status = "applied"
        /\ \A p \in DOMAIN fx_prev :
              ReadLines(ws[p]) = BatchEditedFrom(p, ReadLines(fx_prev[p]), 1)

\* C33: when the run has returned, every commit of a pass of the loop (the
\* commit event of a pass i >= 1) is followed in the history by a call of
\* run_tests.
C33_CommittedBatchTested ==
    pc = "returned" =>
        \A k \in 1..Len(trace) :
            (trace[k][1] = "emit" /\ trace[k][2] = "commit" /\ trace[k][3] >= 1) =>
                \E j \in (k + 1)..Len(trace) :
                    trace[j][1] = "call" /\ trace[j][2] = "run_tests"

\* C34: a report whose final_status is ERROR, stored by the worker into
\* current_run, comes with current_run.status = "error", never "done".
C34_ErrorReportNotDone ==
    (Len(current_run.result) = 3 /\ current_run.result[3] = "ERROR") =>
        current_run.status = "error"

\* The step calls commit_and_push: the call is the entry the step adds first.
CommitStep ==
    /\ Len(trace') > Len(trace)
    /\ trace'[Len(trace) + 1] = Call("commit_and_push")
\* The batch the patch engine was last given in this pass, with its statuses.
PassBatch == IF iteration = 0 THEN dt_fixes ELSE fix_response
CommitCalls(i) == {k \in 1..Len(trace) : trace[k] = <<"call", "commit_and_push", i>>}
CommitAfterApplied ==
    CommitStep =>
        /\ Len(trace) >= 2
        /\ trace[Len(trace)] = Emit("fix_applied")
        /\ trace[Len(trace) - 1] = Call("apply_fixes")
        /\ AppliedCount(PassBatch) > 0
        /\ CommitCalls(iteration) = {}
\* C35: commit_and_push is called only in the step right after an apply_fixes
\* step of the same pass that marked at least one patch applied, and not a
\* second time in that pass.
C35_CommitOnlyAfterApplied == [][CommitAfterApplied]_vars
C35_Witness ==
    /\ CommitCalls(0) # {}
    /\ CommitCalls(1) # {}
    /\ \E i \in 1..Len(fix_response) : fix_response[i].status = "failed"

\* The positions of the done event in the history.
DoneEvents == {k \in 1..Len(trace) : trace[k][1] = "emit" /\ trace[k][2] = "done"}
DoneOnceLast ==
    /\ Cardinality(DoneEvents) <= 1
    /\ DoneEvents # {} <=> pc = "returned"
    /\ pc = "returned" =>
          /\ DoneEvents = {Len(trace)}
          /\ result.final_status \in ReportStatuses
\* C36: every run comes to return its report; the done event is emitted once,
\* by the step that returns, after every other event of the run, and the
\* final_status it carries (that of the report) is PASSED, FAILED,
\* MAX_ITERATIONS or ERROR.
C36_DoneOnceLast == []DoneOnceLast /\ <>(pc = "returned")
C36_Witness ==
    /\ pc = "returned"
    /\ result.final_status = "ERROR"
    /\ trace[Len(trace) - 1] = Emit("error")
    /\ trace[Len(trace)] = Emit("done")

\* C37: in result["iterations"] the indices increase strictly and every record
\* but the last has status DETERMINISTIC_FIX or FIXED (so PASSED, NO_FIXES
\* and NO_FIXES_APPLIED appear only on the last record), in every state of a
\* run, those of runs that end in ERROR included.
C37_IterationList ==
    LET its == result.iterations
    IN /\ \A k \in 1..Len(its) :
             its[k].status \in {"DETERMINISTIC_FIX", "FIXED", "PASSED", "NO_FIXES",
                                "NO_FIXES_APPLIED"}
       /\ \A k \in 1..(Len(its) - 1) :
             /\ its[k].iteration < its[k + 1].iteration
             /\ its[k].status \in {"DETERMINISTIC_FIX", "FIXED"}
C37_Witness ==
    /\ pc = "returned"
    /\ Len(result.iterations) >= 3
    /\ result.iterations[1].status = "DETERMINISTIC_FIX"
    /\ result.iterations[2].status = "FIXED"
    /\ result.iterations[Len(result.iterations)].status = "NO_FIXES_APPLIED"

\* The step calls apply_fixes.
ApplyStep ==
    /\ pc \in {"det_apply", "apply"}
    /\ Len(trace') > Len(trace)
    /\ Call("apply_fixes") \in {trace'[k] : k \in (Len(trace) + 1)..Len(trace')}
\* A patch as it was handed over: without what apply_fixes writes into it.
AsHanded(f) == [k \in DOMAIN f \ {"status", "status_message"} |-> f[k]]
AllFixesKept ==
    /\ IsPrefixOf(result.all_fixes, result'.all_fixes)
    /\ ApplyStep =>
          LET n == Len(result.all_fixes)
          IN /\ Len(result'.all_fixes) = n + Len(PassBatch)
             /\ \A i \in 1..Len(PassBatch) :
                   /\ AsHanded(result'.all_fixes[n + i]) = AsHanded(PassBatch[i])
                   /\ result'.all_fixes[n + i].status \in {"applied", "failed"}
             /\ result'.total_fixes_applied = AppliedCount(result'.all_fixes)
\* C38: all_fixes only grows, and a step that hands a batch to apply_fixes
\* leaves every patch of the batch at the end of all_fixes with status applied
\* or failed and total_fixes_applied equal to the number of applied entries
\* of all_fixes.
C38_AllFixesComplete == [][AllFixesKept]_vars

\* The lines of a file as they are stored: cut after every "\n", each with
\* the characters it has on disk (a "\r" before the "\n" included).
RECURSIVE FileLinesFrom(_, _)
FileLinesFrom(content, cur) ==
    IF content = <<>> THEN (IF cur = <<>> THEN <<>> ELSE <<cur>>)
    ELSE IF Head(content) = LF
        THEN <<Append(cur, LF)>> \o FileLinesFrom(Tail(content), <<>>)
    ELSE FileLinesFrom(Tail(content), Append(cur, Head(content)))
FileLines(content) == FileLinesFrom(content, <<>>)
StoredBefore == FileLines(fx_prev[FsPath(LastFix.file)])
StoredAfter == FileLines(ws[FsPath(LastFix.file)])
\* C39: a patch marked applied changes one line of the file it names and
\* nothing else: a replacement keeps the number of lines, a deletion lowers it
\* by one, every other line and every other file is as before, and with a
\* non-empty old_code the changed line, trimmed, was the trimmed old_code.
C39_OneLineOneFile ==
    (fx_last # <<>> /\ LastFix.status = "applied") =>
        /\ DOMAIN ws = DOMAIN fx_prev
        /\ \A q \in DOMAIN ws \ {FsPath(LastFix.file)} : ws[q] = fx_prev[q]
        /\ \E k \in 1..Len(StoredBefore) :
              /\ IF LastFix.new_code = <<>>
                 THEN StoredAfter = Without(StoredBefore, k)
                 ELSE /\ Len(StoredAfter) = Len(StoredBefore)
                      /\ \A i \in 1..Len(StoredBefore) :
                            i # k => StoredAfter[i] = StoredBefore[i]
              /\ LastFix.old_code # <<>> =>
                    Strip(RStripNewline(StoredBefore[k])) = Strip(LastFix.old_code)
====
